---- MODULE Spec2Model ----
(***************************************************************************)
(* Model of the XMLHttpRequest instrumentation plugin (XhrPlugin.ts) and   *)
(* of the anonymous Cognito credential provider (BasicAuthentication.ts).  *)
(*                                                                         *)
(* An XMLHttpRequest object is a "handle".  The plugin wraps open and send *)
(* of every handle and subscribes to the load / error / abort / timeout    *)
(* events of the handles it tracks.  The browser side of a handle (its     *)
(* readyState, request URL and request headers) is modelled next to the    *)
(* plugin's own state, because the wrappers always call the original       *)
(* method and because setRequestHeader and send depend on readyState.      *)
(***************************************************************************)
EXTENDS Integers, Sequences, FiniteSets, TLC

(***************************************************************************)
(* Bounds of the model.                                                    *)
(***************************************************************************)
MaxSends == 2
MaxSignals == 2
MaxInvocations == 2
MaxStatus == 600

\* The XMLHttpRequest objects an application may create.
Handles == {"xhr1", "xhr2"}

(***************************************************************************)
(* Optional values: an absent field (undefined) is the empty tuple.        *)
(***************************************************************************)
None == << >>
Some(x) == <<x>>
Get(o) == o[1]

(***************************************************************************)
(* Inputs.                                                                 *)
(***************************************************************************)
UrlAws == "https://aws.amazon.com"
UrlOther == "https://example.com/api"
UrlCognito == "https://cognito-identity.us-west-2.amazonaws.com"
UrlSts == "https://sts.us-west-2.amazonaws.com"
Urls == {UrlAws, UrlOther, UrlCognito}
\* The arguments of open: method, url, async.
Requests ==
    { <<"GET", UrlAws, TRUE>>, <<"POST", UrlOther, TRUE>>,
      <<"GET", UrlCognito, TRUE>> }
\* xhr.status and the Content-Length header when the load event is dispatched
LoadResponses ==
    { <<200, Some("42")>>, <<300, None>>, <<404, None>>,
      <<429, Some("abc")>>, <<500, None>> }
\* xhr.status and xhr.statusText when the error event is dispatched
ErrorStatuses == {<<0, "">>, <<0, "Failed">>}

(***************************************************************************)
(* Regular expressions are modelled by the set of URLs of Urls they match. *)
(***************************************************************************)
ReAll == ".*"
ReAws == "aws\\.amazon\\.com"
ReCognito == "cognito-(identity|idp)\\..*\\.amazonaws\\.com"
ReSts == "sts\\..*\\.amazonaws\\.com"

Matches(re, url) ==
    CASE re = ReAll -> TRUE
      [] re = ReAws -> url = UrlAws
      [] re = ReCognito -> url = UrlCognito
      [] re = ReSts -> url = UrlSts
      [] OTHER -> FALSE

XRAY_TRACE_EVENT_TYPE == "com.amazon.rum.xray_trace_event"
HTTP_EVENT_TYPE == "com.amazon.rum.http_event"
X_AMZN_TRACE_ID == "X-Amzn-Trace-Id"
W3C_TRACEPARENT_HEADER_NAME == "traceparent"

defaultConfig ==
    [ logicalServiceName |-> "rum.aws.amazon.com",
      urlsToInclude |-> {ReAll},
      urlsToExclude |-> {ReCognito, ReSts},
      recordAllRequests |-> FALSE,
      addXRayTraceIdHeader |-> [list |-> FALSE, on |-> FALSE, res |-> {}] ]

(***************************************************************************)
(* addXRayTraceIdHeader is a boolean (on) or a list of regular expressions *)
(* (list is TRUE and res holds them).                                      *)
(***************************************************************************)
HeaderSettings ==
    { [list |-> FALSE, on |-> FALSE, res |-> {}],
      [list |-> FALSE, on |-> TRUE, res |-> {}],
      [list |-> TRUE, on |-> FALSE, res |-> {ReAws}],
      [list |-> TRUE, on |-> FALSE, res |-> {}] }

VARIABLES
    config,          \* this.config: defaultConfig merged with the argument
    context,         \* this.context.config: enableXRay, enableW3CTraceId
    session,         \* what this.context.getSession() returns now
    isSyntheticsUA,  \* navigator.userAgent includes 'CloudWatchSynthetics'
    created,         \* the XMLHttpRequest objects the application created
    xhrMap,          \* Map<XMLHttpRequest, XhrDetails>
    listeners,       \* handles on which the four listeners are registered
    xhr,             \* browser state of every handle
    events,          \* calls of this.context.record for the calls in progress
    nextId,          \* number of traces minted so far
    now,             \* epochTime(): the number of sends completed so far
    sends,           \* number of calls of the wrapped send so far
    signalled,       \* completion events dispatched since the last send
    enabled          \* MonkeyPatched: the patches are installed

xhrVars == <<config, context, session, isSyntheticsUA, created, xhrMap,
             listeners, xhr, events, nextId, now, sends, signalled, enabled>>

VARIABLES
    credentials,     \* this.credentials
    localStorage,    \* localStorage[this.credentialStorageKey]
    pc,              \* where each call of the provider is suspended
    retries,         \* the local variable retries of each call
    getIdResponse,   \* the local variable getIdResponse of each call
    getOpenIdTokenResponse,
    outcome,         \* what a call returned or threw
    attempts,        \* passes of the loop body each call has started
    requests,        \* network requests each call has issued, in order
    issued,          \* identities the identity pool has issued so far
    invocations,     \* number of calls of the provider so far
    atInvoke         \* this.credentials and the stored entry when each call
                     \* of the provider started

authVars == <<credentials, localStorage, pc, retries, getIdResponse,
              getOpenIdTokenResponse, outcome, attempts, requests, issued,
              invocations, atInvoke>>

(***************************************************************************)
(* Helpers of utils/http-utils.                                            *)
(***************************************************************************)
isUrlAllowed(url, cfg) ==
    /\ \E re \in cfg.urlsToInclude : Matches(re, url)
    /\ \A re \in cfg.urlsToExclude : ~Matches(re, url)

isTraceIdHeaderEnabled(url, setting) ==
    IF setting.list
    THEN \E re \in setting.res : Matches(re, url)
    ELSE setting.on

is429(status) == status = 429
is4xx(status) == status \div 100 = 4
is5xx(status) == status \div 100 = 5

requestInfoToHostname(url) ==
    CASE url = UrlAws -> "aws.amazon.com"
      [] url = UrlOther -> "example.com"
      [] OTHER -> "cognito-identity.us-west-2.amazonaws.com"

\* Fresh random identifiers are modelled by the number n of the mint.
createXRayTraceEvent(name, startTime, enableW3CTraceId, n) ==
    [ version |-> "1.0.0",
      name |-> name,
      origin |-> "AWS::RUM::AppMonitor",
      id |-> <<"segment", n>>,
      start_time |-> startTime,
      trace_id |-> [ format |-> IF enableW3CTraceId THEN "w3c" ELSE "xray",
                     root |-> n ],
      end_time |-> None,
      error |-> FALSE,
      fault |-> FALSE,
      throttle |-> FALSE,
      subsegments |-> << >> ]

createXRaySubsegment(name, startTime, http, n) ==
    [ id |-> <<"subsegment", n>>,
      name |-> name,
      start_time |-> startTime,
      end_time |-> None,
      namespace |-> "remote",
      http |-> http,
      error |-> FALSE,
      fault |-> FALSE,
      throttle |-> FALSE,
      cause |-> None ]

\* '00-' + traceId + '-' + segmentId + '-01'
getW3CTraceIdHeaderValue(traceId, segmentId) ==
    [ encoding |-> "w3c", version |-> "00", traceId |-> traceId,
      parentId |-> segmentId, flags |-> "01" ]

\* 'Root=' + traceId + ';Parent=' + segmentId + ';Sampled=1'
getAmznTraceIdHeaderValue(traceId, segmentId) ==
    [ encoding |-> "xray", Root |-> traceId, Parent |-> segmentId,
      Sampled |-> "1" ]

\* parseInt(clStr, 10) of the strings of ContentLengths; NaN is None.
parseInt(str) == IF str = "42" THEN Some(42) ELSE None

\* new XhrError(message), and a thrown primitive (a string)
XhrError(message) ==
    [ object |-> TRUE, name |-> "XMLHttpRequest error", message |-> message ]
Primitive(str) == [ object |-> FALSE, name |-> str, message |-> str ]

\* errorEventToJsErrorEvent({type: 'error', error}, stackTraceLength): an
\* Error object gives its name and message, a primitive its string as both.
errorEventToJsErrorEvent(error) ==
    [ version |-> "1.0.0", type |-> error.name, message |-> error.message ]

\* statusText of a response with the given status
StatusText(status) ==
    CASE status = 200 -> "OK"
      [] status = 300 -> "Multiple Choices"
      [] status = 404 -> "Not Found"
      [] status = 429 -> "Too Many Requests"
      [] status = 500 -> "Internal Server Error"
      [] OTHER -> ""

(***************************************************************************)
(* XhrPlugin: the gates.                                                   *)
(***************************************************************************)
addXRayTraceIdHeader(url) ==
    isTraceIdHeaderEnabled(url, config.addXRayTraceIdHeader)

isTracingEnabled == context.enableXRay

isSessionRecorded == IF session = None THEN FALSE ELSE Get(session).record

\* Mutant: the upper end of the range is included.
statusOkUpTo300(status) == status >= 200 /\ status <= 300

statusOk(status) == status >= 200 /\ status < 300

(***************************************************************************)
(* BasicAuthentication: AnonymousCognitoCredentialsProvider.  A call of    *)
(* the provider is suspended at each of its three awaits; the identity     *)
(* pool, the token service and STS answer or fail.                         *)
(***************************************************************************)
Invocations == {"call1", "call2"}
identityPoolId == "us-west-2:pool"
guestRoleArn == "arn:aws:iam::000000000000:role/guest"

\* What the three services answer.
GetIdOutput(k) == [ IdentityId |-> <<identityPoolId, k>> ]
GetOpenIdTokenOutput(input) ==
    [ IdentityId |-> input.IdentityId, Token |-> <<"token", input.IdentityId>> ]
AssumeRoleOutput(input) ==
    [ accessKeyId |-> <<"AKID", input.WebIdentityToken>>,
      secretAccessKey |-> <<"SECRET", input.WebIdentityToken>>,
      sessionToken |-> <<"SESSION", input.WebIdentityToken>>,
      expiration |-> <<"EXP", input.WebIdentityToken>> ]

getIdRequest ==
    [ op |-> "getId", input |-> [IdentityPoolId |-> identityPoolId] ]
getOpenIdTokenRequest(response) ==
    [ op |-> "getOpenIdToken", input |-> response ]
assumeRoleRequest(response) ==
    [ op |-> "assumeRoleWithWebIdentity",
      input |-> [ RoleArn |-> guestRoleArn,
                  RoleSessionName |-> "cwr",
                  WebIdentityToken |-> response.Token ] ]

\* Mutant: the retry resumes at the step that failed.
startAttemptResume(i) ==
    /\ pc' = pc
    /\ attempts' = [attempts EXCEPT ![i] = @ + 1]
    /\ requests' = [requests EXCEPT ![i] = Append(@, @[Len(@)])]

\* The top of the loop body: the first await.
startAttempt(i) ==
    /\ pc' = [pc EXCEPT ![i] = "getId"]
    /\ attempts' = [attempts EXCEPT ![i] = @ + 1]
    /\ requests' = [requests EXCEPT ![i] = Append(@, getIdRequest)]

Invoke(i) ==
    /\ pc[i] \in {"idle", "returned", "thrown"}
    /\ invocations < MaxInvocations
    /\ invocations' = invocations + 1
    /\ retries' = [retries EXCEPT ![i] = 1]
    /\ pc' = [pc EXCEPT ![i] = "getId"]
    /\ attempts' = [attempts EXCEPT ![i] = 1]
    /\ requests' = [requests EXCEPT ![i] = <<getIdRequest>>]
    /\ outcome' = [outcome EXCEPT ![i] = None]
    /\ getIdResponse' = [getIdResponse EXCEPT ![i] = None]
    /\ getOpenIdTokenResponse' = [getOpenIdTokenResponse EXCEPT ![i] = None]
    /\ atInvoke' = [atInvoke EXCEPT ![i] =
           [credentials |-> credentials, localStorage |-> localStorage]]
    /\ UNCHANGED <<credentials, localStorage, issued>>
    /\ UNCHANGED xhrVars

\* Mutant: if (retries >= 0).
catchOffByOne(i, e) ==
    IF retries[i] >= 0
    THEN /\ retries' = [retries EXCEPT ![i] = @ - 1]
         /\ startAttempt(i)
         /\ UNCHANGED outcome
    ELSE /\ pc' = [pc EXCEPT ![i] = "thrown"]
         /\ outcome' = [outcome EXCEPT ![i] = Some([threw |-> e])]
         /\ UNCHANGED <<retries, attempts, requests>>

\* Mutant: retries is not decremented.
catchKeepsRetries(i, e) ==
    IF retries[i] # 0
    THEN /\ retries' = retries
         /\ startAttempt(i)
         /\ UNCHANGED outcome
    ELSE /\ pc' = [pc EXCEPT ![i] = "thrown"]
         /\ outcome' = [outcome EXCEPT ![i] = Some([threw |-> e])]
         /\ UNCHANGED <<retries, attempts, requests>>

\* catch (e) { if (retries) { retries--; } else { throw e; } }
catch(i, e) ==
    IF retries[i] # 0
    THEN /\ retries' = [retries EXCEPT ![i] = @ - 1]
         /\ startAttempt(i)
         /\ UNCHANGED outcome
    ELSE /\ pc' = [pc EXCEPT ![i] = "thrown"]
         /\ outcome' = [outcome EXCEPT ![i] = Some([threw |-> e])]
         /\ UNCHANGED <<retries, attempts, requests>>

\* Mutant: a failure clears the cached credentials.
RejectClearsCache(i) ==
    /\ pc[i] \in {"getId", "getOpenIdToken", "assumeRole"}
    /\ catch(i, [step |-> pc[i], attempt |-> attempts[i]])
    /\ credentials' = None
    /\ UNCHANGED <<localStorage, getIdResponse,
                   getOpenIdTokenResponse, issued, invocations, atInvoke>>
    /\ UNCHANGED xhrVars

\* An await of the call rejects.
Reject(i) ==
    /\ pc[i] \in {"getId", "getOpenIdToken", "assumeRole"}
    /\ catch(i, [step |-> pc[i], attempt |-> attempts[i]])
    /\ UNCHANGED <<credentials, localStorage, getIdResponse,
                   getOpenIdTokenResponse, issued, invocations, atInvoke>>
    /\ UNCHANGED xhrVars

GetIdResolve(i) ==
    /\ pc[i] = "getId"
    /\ issued' = issued + 1
    /\ getIdResponse' =
           [getIdResponse EXCEPT ![i] = Some(GetIdOutput(issued + 1))]
    /\ pc' = [pc EXCEPT ![i] = "getOpenIdToken"]
    /\ requests' = [requests EXCEPT ![i] =
           Append(@, getOpenIdTokenRequest(GetIdOutput(issued + 1)))]
    /\ UNCHANGED <<credentials, localStorage, retries, getOpenIdTokenResponse,
                   outcome, attempts, invocations, atInvoke>>
    /\ UNCHANGED xhrVars

GetOpenIdTokenResolve(i) ==
    LET response == GetOpenIdTokenOutput(Get(getIdResponse[i])) IN
    /\ pc[i] = "getOpenIdToken"
    /\ getOpenIdTokenResponse' =
           [getOpenIdTokenResponse EXCEPT ![i] = Some(response)]
    /\ pc' = [pc EXCEPT ![i] = "assumeRole"]
    /\ requests' = [requests EXCEPT ![i] =
           Append(@, assumeRoleRequest(response))]
    /\ UNCHANGED <<credentials, localStorage, retries, getIdResponse,
                   outcome, attempts, issued, invocations, atInvoke>>
    /\ UNCHANGED xhrVars

\* localStorage.setItem(key, JSON.stringify(credentials)) in a try whose
\* catch ignores the exception; stored says whether setItem succeeded.
setItem(value, stored) == IF stored THEN Some(value) ELSE localStorage

\* Mutant: this.credentials is not assigned.
AssumeRoleResolveNoCache(i, stored) ==
    LET creds == AssumeRoleOutput(
                     assumeRoleRequest(Get(getOpenIdTokenResponse[i])).input)
    IN
    /\ pc[i] = "assumeRole"
    /\ credentials' = credentials
    /\ localStorage' = setItem(creds, stored)
    /\ pc' = [pc EXCEPT ![i] = "returned"]
    /\ outcome' = [outcome EXCEPT ![i] = Some([returned |-> creds])]
    /\ UNCHANGED <<retries, getIdResponse, getOpenIdTokenResponse, attempts,
                   requests, issued, invocations, atInvoke>>
    /\ UNCHANGED xhrVars

\* Mutant: setItem is not in a try of its own, so its exception reaches the
\* catch block of the loop.
AssumeRoleResolveStorageThrows(i, stored) ==
    LET creds == AssumeRoleOutput(
                     assumeRoleRequest(Get(getOpenIdTokenResponse[i])).input)
    IN
    /\ pc[i] = "assumeRole"
    /\ credentials' = Some(creds)
    /\ localStorage' = setItem(creds, stored)
    /\ IF stored
       THEN /\ pc' = [pc EXCEPT ![i] = "returned"]
            /\ outcome' = [outcome EXCEPT ![i] = Some([returned |-> creds])]
            /\ UNCHANGED <<retries, attempts, requests>>
       ELSE catch(i, [step |-> "setItem", attempt |-> attempts[i]])
    /\ UNCHANGED <<getIdResponse, getOpenIdTokenResponse, issued,
                   invocations, atInvoke>>
    /\ UNCHANGED xhrVars

\* Mutant: the new credentials are merged into the current ones, and the
\* expiration of the current ones is kept.
AssumeRoleResolveMerging(i, stored) ==
    LET creds == AssumeRoleOutput(
                     assumeRoleRequest(Get(getOpenIdTokenResponse[i])).input)
        merged == IF credentials = None
                  THEN creds
                  ELSE [creds EXCEPT
                          !.expiration = Get(credentials).expiration]
    IN
    /\ pc[i] = "assumeRole"
    /\ credentials' = Some(merged)
    /\ localStorage' = setItem(creds, stored)
    /\ pc' = [pc EXCEPT ![i] = "returned"]
    /\ outcome' = [outcome EXCEPT ![i] = Some([returned |-> creds])]
    /\ UNCHANGED <<retries, getIdResponse, getOpenIdTokenResponse, attempts,
                   requests, issued, invocations, atInvoke>>
    /\ UNCHANGED xhrVars

\* Mutant: the write to local storage is awaited, so the call is suspended
\* once more between the assignment of this.credentials and the write.
AssumeRoleResolveAwaitsWrite(i, stored) ==
    LET creds == AssumeRoleOutput(
                     assumeRoleRequest(Get(getOpenIdTokenResponse[i])).input)
    IN
    /\ pc[i] = "assumeRole"
    /\ IF credentials # Some(creds)
       THEN /\ credentials' = Some(creds)
            /\ UNCHANGED <<localStorage, pc, outcome>>
       ELSE /\ localStorage' = setItem(creds, stored)
            /\ pc' = [pc EXCEPT ![i] = "returned"]
            /\ outcome' = [outcome EXCEPT ![i] = Some([returned |-> creds])]
            /\ UNCHANGED credentials
    /\ UNCHANGED <<retries, getIdResponse, getOpenIdTokenResponse, attempts,
                   requests, issued, invocations, atInvoke>>
    /\ UNCHANGED xhrVars

AssumeRoleResolve(i, stored) ==
    LET creds == AssumeRoleOutput(
                     assumeRoleRequest(Get(getOpenIdTokenResponse[i])).input)
    IN
    /\ pc[i] = "assumeRole"
    /\ credentials' = Some(creds)
    /\ localStorage' = setItem(creds, stored)
    /\ pc' = [pc EXCEPT ![i] = "returned"]
    /\ outcome' = [outcome EXCEPT ![i] = Some([returned |-> creds])]
    /\ UNCHANGED <<retries, getIdResponse, getOpenIdTokenResponse, attempts,
                   requests, issued, invocations, atInvoke>>
    /\ UNCHANGED xhrVars

(***************************************************************************)
(* XhrPlugin: recording.  An entry of events is one call of                *)
(* this.context.record(type, payload); handle, call and url say which send *)
(* of which handle was being served, and the URL the browser was given.    *)
(* The event cache is drained by the dispatcher: the model keeps the       *)
(* events of a handle until the handle is opened for its next call.        *)
(***************************************************************************)
isOf(h, e) == e.handle = h
eventsOf(h) == SelectSeq(events, LAMBDA e : isOf(h, e))
drained(h) == SelectSeq(events, LAMBDA e : ~isOf(h, e))

Recorded(type, payload, h) ==
    [ type |-> type, payload |-> payload, handle |-> h,
      call |-> xhr[h].call, url |-> xhr[h].url ]

\* Mutant: the session is not consulted.
recordTraceEventGateNoSession == ~isSyntheticsUA /\ isTracingEnabled

recordTraceEventGate ==
    ~isSyntheticsUA /\ isTracingEnabled /\ isSessionRecorded

recordTraceEvent(log, trace, h) ==
    IF recordTraceEventGate
    THEN Append(log, Recorded(XRAY_TRACE_EVENT_TYPE, trace, h))
    ELSE log

\* Mutant: segment_id is the id of the root segment.
withTraceIdsRootSegment(httpEvent, xhrDetails) ==
    IF isTracingEnabled
    THEN [httpEvent EXCEPT
            !.trace_id = Some(Get(xhrDetails.trace).trace_id),
            !.segment_id = Some(Get(xhrDetails.trace).id)]
    ELSE httpEvent

\* if (this.isTracingEnabled()) { httpEvent.trace_id = ...; segment_id = ... }
withTraceIds(httpEvent, xhrDetails) ==
    IF isTracingEnabled
    THEN [httpEvent EXCEPT
            !.trace_id = Some(Get(xhrDetails.trace).trace_id),
            !.segment_id = Some(Get(xhrDetails.trace).subsegments[1].id)]
    ELSE httpEvent

shouldRecordResponse(status) ==
    config.recordAllRequests \/ ~statusOk(status)

\* Mutant: the record is not deleted.
xhrMapDeleteNothing(h) == xhrMap

xhrMapDelete(h) == [xhrMap EXCEPT ![h] = None]

recordHttpEventWithResponse(log, xhrDetails, h, status, statusText) ==
    LET httpEvent ==
            [ version |-> "1.0.0",
              request |-> [method |-> xhrDetails.method,
                           url |-> xhrDetails.url],
              response |-> Some([status |-> status,
                                 statusText |-> statusText]),
              error |-> None,
              trace_id |-> None,
              segment_id |-> None ]
    IN  IF shouldRecordResponse(status)
        THEN Append(log, Recorded(HTTP_EVENT_TYPE,
                                  withTraceIds(httpEvent, xhrDetails), h))
        ELSE log

\* Mutant: the event of a failed call also carries a response object.
recordHttpEventWithErrorAndResponse(log, xhrDetails, h, error) ==
    LET httpEvent ==
            [ version |-> "1.0.0",
              request |-> [method |-> xhrDetails.method,
                           url |-> xhrDetails.url],
              response |-> Some([status |-> xhr'[h].status,
                                 statusText |-> xhr'[h].statusText]),
              error |-> Some(errorEventToJsErrorEvent(error)),
              trace_id |-> None,
              segment_id |-> None ]
    IN  Append(log, Recorded(HTTP_EVENT_TYPE,
                             withTraceIds(httpEvent, xhrDetails), h))

recordHttpEventWithError(log, xhrDetails, h, error) ==
    LET httpEvent ==
            [ version |-> "1.0.0",
              request |-> [method |-> xhrDetails.method,
                           url |-> xhrDetails.url],
              response |-> None,
              error |-> Some(errorEventToJsErrorEvent(error)),
              trace_id |-> None,
              segment_id |-> None ]
    IN  Append(log, Recorded(HTTP_EVENT_TYPE,
                             withTraceIds(httpEvent, xhrDetails), h))

(***************************************************************************)
(* XhrPlugin: what the completion handlers write into the trace.           *)
(***************************************************************************)
\* Mutant: the test for 4xx comes before the test for 429.
Classify4xxFirst(trace, status) ==
    IF is4xx(status)
    THEN [trace EXCEPT !.subsegments[1].error = TRUE, !.error = TRUE]
    ELSE IF is429(status)
    THEN [trace EXCEPT !.subsegments[1].throttle = TRUE, !.throttle = TRUE]
    ELSE IF is5xx(status)
    THEN [trace EXCEPT !.subsegments[1].fault = TRUE, !.fault = TRUE]
    ELSE trace

\* Mutant: the flag is set on the subsegment and not rolled up to the root.
ClassifyNoRollup(trace, status) ==
    IF is429(status)
    THEN [trace EXCEPT !.subsegments[1].throttle = TRUE]
    ELSE IF is4xx(status)
    THEN [trace EXCEPT !.subsegments[1].error = TRUE]
    ELSE IF is5xx(status)
    THEN [trace EXCEPT !.subsegments[1].fault = TRUE]
    ELSE trace

Classify(trace, status) ==
    IF is429(status)
    THEN [trace EXCEPT !.subsegments[1].throttle = TRUE, !.throttle = TRUE]
    ELSE IF is4xx(status)
    THEN [trace EXCEPT !.subsegments[1].error = TRUE, !.error = TRUE]
    ELSE IF is5xx(status)
    THEN [trace EXCEPT !.subsegments[1].fault = TRUE, !.fault = TRUE]
    ELSE trace

\* Mutant: a response of status 5xx is also given a cause.
loadTraceWithCause(trace, status, clStr, endTime) ==
    LET t == Classify(
                 [trace EXCEPT
                    !.end_time = Some(endTime),
                    !.subsegments[1].end_time = Some(endTime),
                    !.subsegments[1].http.response =
                        Some([status |-> status, content_length |-> None])],
                 status)
    IN  IF is5xx(status)
        THEN [t EXCEPT !.subsegments[1].cause =
                 Some([exceptions |-> << [type |-> "XMLHttpRequest error",
                                          message |-> None] >>])]
        ELSE t

loadTrace(trace, status, clStr, endTime) ==
    LET t1 == [trace EXCEPT
                 !.end_time = Some(endTime),
                 !.subsegments[1].end_time = Some(endTime),
                 !.subsegments[1].http.response =
                     Some([status |-> status, content_length |-> None])]
        t2 == Classify(t1, status)
        cl == IF clStr # None /\ Get(clStr) # ""
              THEN parseInt(Get(clStr))
              ELSE None
    IN  IF cl # None
        THEN [t2 EXCEPT !.subsegments[1].http.response =
                 Some([status |-> status, content_length |-> cl])]
        ELSE t2

errorMessage(status, statusText) ==
    IF statusText # "" THEN <<status, ": ", statusText>> ELSE <<status>>

\* Mutant: the fault is set on the subsegment only.
errorTraceSubsegmentOnly(trace, message, endTime) ==
    [trace EXCEPT
       !.end_time = Some(endTime),
       !.subsegments[1].end_time = Some(endTime),
       !.subsegments[1].fault = TRUE,
       !.subsegments[1].cause =
           Some([exceptions |-> << [type |-> "XMLHttpRequest error",
                                    message |-> Some(message)] >>])]

errorTrace(trace, message, endTime) ==
    [trace EXCEPT
       !.fault = TRUE,
       !.end_time = Some(endTime),
       !.subsegments[1].end_time = Some(endTime),
       !.subsegments[1].fault = TRUE,
       !.subsegments[1].cause =
           Some([exceptions |-> << [type |-> "XMLHttpRequest error",
                                    message |-> Some(message)] >>])]

\* Mutant: abort and timeout are recorded as a fault.
detailsOnErrorTraceAsFault(trace, errorName, endTime) ==
    [trace EXCEPT
       !.end_time = Some(endTime),
       !.subsegments[1].end_time = Some(endTime),
       !.subsegments[1].fault = TRUE,
       !.subsegments[1].cause =
           Some([exceptions |-> << [type |-> errorName,
                                    message |-> None] >>])]

detailsOnErrorTrace(trace, errorName, endTime) ==
    [trace EXCEPT
       !.end_time = Some(endTime),
       !.subsegments[1].end_time = Some(endTime),
       !.subsegments[1].error = TRUE,
       !.subsegments[1].cause =
           Some([exceptions |-> << [type |-> errorName,
                                    message |-> None] >>])]

(***************************************************************************)
(* XhrPlugin: the completion handlers.  A handler that finds a record      *)
(* whose trace is undefined throws a TypeError at its first assignment and *)
(* changes nothing.                                                        *)
(***************************************************************************)
\* Mutant: the HTTP event is recorded before the trace event.
handleXhrLoadEventHttpFirst(h, status, clStr) ==
    LET xhrDetails == xhrMap[h] IN
    IF xhrDetails # None /\ Get(xhrDetails).trace # None
    THEN LET trace == loadTrace(Get(Get(xhrDetails).trace), status, clStr,
                                now')
             details == [Get(xhrDetails) EXCEPT !.trace = Some(trace)]
         IN  /\ events' = recordTraceEvent(
                              recordHttpEventWithResponse(
                                  events, details, h, status,
                                  xhr'[h].statusText),
                              trace, h)
             /\ xhrMap' = xhrMapDelete(h)
    ELSE UNCHANGED <<events, xhrMap>>

handleXhrLoadEvent(h, status, clStr) ==
    LET xhrDetails == xhrMap[h] IN
    IF xhrDetails # None /\ Get(xhrDetails).trace # None
    THEN LET trace == loadTrace(Get(Get(xhrDetails).trace), status, clStr,
                                now')
             details == [Get(xhrDetails) EXCEPT !.trace = Some(trace)]
         IN  /\ events' = recordHttpEventWithResponse(
                              recordTraceEvent(events, trace, h),
                              details, h, status, xhr'[h].statusText)
             /\ xhrMap' = xhrMapDelete(h)
    ELSE UNCHANGED <<events, xhrMap>>

handleXhrErrorEvent(h, status, statusText) ==
    LET xhrDetails == xhrMap[h]
        message == errorMessage(status, statusText)
    IN
    IF xhrDetails # None /\ Get(xhrDetails).trace # None
    THEN LET trace == errorTrace(Get(Get(xhrDetails).trace), message,
                                 now')
             details == [Get(xhrDetails) EXCEPT !.trace = Some(trace)]
         IN  /\ events' = recordHttpEventWithError(
                              recordTraceEvent(events, trace, h),
                              details, h, XhrError(message))
             /\ xhrMap' = xhrMapDelete(h)
    ELSE UNCHANGED <<events, xhrMap>>

handleXhrDetailsOnError(h, errorName) ==
    LET xhrDetails == xhrMap[h] IN
    IF xhrDetails # None /\ Get(xhrDetails).trace # None
    THEN LET trace == detailsOnErrorTrace(Get(Get(xhrDetails).trace),
                                          errorName, now')
             details == [Get(xhrDetails) EXCEPT !.trace = Some(trace)]
         IN  /\ events' = recordHttpEventWithError(
                              recordTraceEvent(events, trace, h),
                              details, h, Primitive(errorName))
             /\ xhrMap' = xhrMapDelete(h)
    ELSE UNCHANGED <<events, xhrMap>>

\* Mutant: an abort is handled as the error event is.
handleXhrAbortEventAsError(h) ==
    handleXhrErrorEvent(h, xhr'[h].status, xhr'[h].statusText)

handleXhrAbortEvent(h) == handleXhrDetailsOnError(h, "XMLHttpRequest abort")

handleXhrTimeoutEvent(h) ==
    handleXhrDetailsOnError(h, "XMLHttpRequest timeout")

(***************************************************************************)
(* XhrPlugin: the wrappers of open and send.                               *)
(***************************************************************************)
initializeTrace(xhrDetails, n) ==
    LET startTime == now
        trace == createXRayTraceEvent(config.logicalServiceName, startTime,
                                      context.enableW3CTraceId, n)
        subsegment ==
            createXRaySubsegment(
                requestInfoToHostname(xhrDetails.url), startTime,
                [ request |-> [ method |-> xhrDetails.method,
                                url |-> xhrDetails.url,
                                traced |-> TRUE ],
                  response |-> None ],
                n)
    IN  [xhrDetails EXCEPT
           !.trace = Some([trace EXCEPT
                             !.subsegments = Append(@, subsegment)])]

injectGate(url) ==
    /\ ~isSyntheticsUA
    /\ isTracingEnabled
    /\ addXRayTraceIdHeader(url)
    /\ isSessionRecorded

\* Mutant: the test of enableW3CTraceId is inverted.
traceHeaderInverted(trace) ==
    IF ~context.enableW3CTraceId
    THEN [ name |-> W3C_TRACEPARENT_HEADER_NAME,
           value |-> getW3CTraceIdHeaderValue(trace.trace_id,
                                              trace.subsegments[1].id) ]
    ELSE [ name |-> X_AMZN_TRACE_ID,
           value |-> getAmznTraceIdHeaderValue(trace.trace_id,
                                               trace.subsegments[1].id) ]

traceHeader(trace) ==
    IF context.enableW3CTraceId
    THEN [ name |-> W3C_TRACEPARENT_HEADER_NAME,
           value |-> getW3CTraceIdHeaderValue(trace.trace_id,
                                              trace.subsegments[1].id) ]
    ELSE [ name |-> X_AMZN_TRACE_ID,
           value |-> getAmznTraceIdHeaderValue(trace.trace_id,
                                               trace.subsegments[1].id) ]

\* A handle the application has just created.  tracked, completion and
\* raised are history: whether the plugin held a record of the handle when
\* its send went out, the first completion event dispatched for that send,
\* the operation whose InvalidStateError left the last call of send on the
\* handle ("" when send returned), and whether the open of the handle went
\* through openWrapper.
newXhr ==
    [ readyState |-> "UNSENT", url |-> None, method |-> None,
      headers |-> << >>, status |-> 0, statusText |-> "",
      contentLength |-> None, call |-> 0, tracked |-> FALSE,
      completion |-> "", raised |-> "", viaWrapper |-> TRUE ]

\* XMLHttpRequest.prototype.open: every open starts the handle afresh and
\* ends what an earlier send of the handle had in flight.
\* Mutant: open leaves a send that is in flight going, so that its
\* completion events still arrive after the handle was opened again.
originalOpenKeepsFlight(h, method, url) ==
    [xhr EXCEPT ![h] = [newXhr EXCEPT
                          !.readyState = IF xhr[h].readyState = "SENT"
                                         THEN "SENT" ELSE "OPENED",
                          !.url = Some(url),
                          !.method = Some(method)]]

originalOpen(h, method, url) ==
    [xhr EXCEPT ![h] = [newXhr EXCEPT !.readyState = "OPENED",
                                      !.url = Some(url),
                                      !.method = Some(method)]]

\* XMLHttpRequest.prototype.send with the headers set before it: it throws
\* an InvalidStateError, and sends nothing, unless the handle is OPENED.
originalSend(h, headers, tracked) ==
    IF xhr[h].readyState = "OPENED"
    THEN [xhr EXCEPT ![h].readyState = "SENT",
                     ![h].headers = @ \o headers,
                     ![h].call = sends + 1,
                     ![h].tracked = tracked,
                     ![h].raised = ""]
    ELSE [xhr EXCEPT ![h].raised = "send"]

openWrapper(h, method, url, async) ==
    /\ xhrMap' = IF isUrlAllowed(url, config)
                 THEN [xhrMap EXCEPT ![h] =
                          Some([ url |-> url, method |-> method,
                                 async |-> async, trace |-> None ])]
                 ELSE xhrMap
    /\ xhr' = originalOpen(h, method, url)
    /\ signalled' = [signalled EXCEPT ![h] = 0]
    /\ events' = drained(h)
    /\ UNCHANGED authVars
    /\ UNCHANGED <<config, context, session, isSyntheticsUA, created,
                   listeners, nextId, now, sends, enabled>>

\* setRequestHeader throws an InvalidStateError unless the handle is OPENED;
\* the exception leaves the wrapper before the original send is called.
sendWrapper(h) ==
    /\ sends < MaxSends
    /\ xhrMap[h] # None \/ xhr[h].readyState = "OPENED"
    /\ sends' = sends + 1
    /\ IF xhrMap[h] # None
       THEN LET details == initializeTrace(Get(xhrMap[h]), nextId + 1)
                inject == injectGate(details.url)
                thrown == inject /\ xhr[h].readyState # "OPENED"
            IN  /\ listeners' = [listeners EXCEPT ![h] = TRUE]
                /\ xhrMap' = [xhrMap EXCEPT ![h] = Some(details)]
                /\ nextId' = nextId + 1
                /\ xhr' = IF thrown
                          THEN [xhr EXCEPT
                                  ![h].raised = "setRequestHeader"]
                          ELSE originalSend(h,
                                   IF inject
                                   THEN <<traceHeader(Get(details.trace))>>
                                   ELSE << >>,
                                   TRUE)
       ELSE /\ xhr' = originalSend(h, << >>, FALSE)
            /\ UNCHANGED <<listeners, xhrMap, nextId>>
    /\ UNCHANGED authVars
    /\ UNCHANGED <<config, context, session, isSyntheticsUA, created,
                   events, now, signalled, enabled>>

(***************************************************************************)
(* The browser dispatches a completion event of the handle's send.  The    *)
(* first one ends the send and sets xhr.status, xhr.statusText and the     *)
(* response headers; time has passed while the send was in flight.  Any    *)
(* further event of the same send follows at once and finds them as they   *)
(* are.                                                                    *)
(***************************************************************************)
Dispatch(h, kind, status, statusText, clStr) ==
    /\ xhr[h].readyState \in {"SENT", "DONE"}
    /\ signalled[h] < MaxSignals
    /\ now' = IF xhr[h].readyState = "SENT" THEN now + 1 ELSE now
    /\ xhr' = IF xhr[h].readyState = "SENT"
              THEN [xhr EXCEPT ![h].readyState = "DONE",
                               ![h].status = status,
                               ![h].statusText = statusText,
                               ![h].contentLength = clStr,
                               ![h].completion = kind]
              ELSE xhr
    /\ signalled' = [signalled EXCEPT ![h] = @ + 1]
    /\ UNCHANGED authVars
    /\ UNCHANGED <<config, context, session, isSyntheticsUA, created,
                   listeners, nextId, sends, enabled>>

\* The handlers read xhr.status, xhr.statusText and the Content-Length
\* header of the handle as the dispatch has left them.
Load(h, status, clStr) ==
    /\ Dispatch(h, "load", status, StatusText(status), clStr)
    /\ IF listeners[h]
       THEN handleXhrLoadEvent(h, xhr'[h].status, xhr'[h].contentLength)
       ELSE UNCHANGED <<events, xhrMap>>

Error(h, status, statusText) ==
    /\ Dispatch(h, "error", status, statusText, None)
    /\ IF listeners[h]
       THEN handleXhrErrorEvent(h, xhr'[h].status, xhr'[h].statusText)
       ELSE UNCHANGED <<events, xhrMap>>

Abort(h) ==
    /\ Dispatch(h, "abort", 0, "", None)
    /\ IF listeners[h]
       THEN handleXhrAbortEvent(h)
       ELSE UNCHANGED <<events, xhrMap>>

Timeout(h) ==
    /\ Dispatch(h, "timeout", 0, "", None)
    /\ IF listeners[h]
       THEN handleXhrTimeoutEvent(h)
       ELSE UNCHANGED <<events, xhrMap>>

(***************************************************************************)
(* The environment: the session changes.                                   *)
(***************************************************************************)
Sessions == {None, Some([record |-> TRUE]), Some([record |-> FALSE])}

SessionChange(s) ==
    /\ s # session
    /\ session' = s
    /\ UNCHANGED authVars
    /\ UNCHANGED <<config, context, isSyntheticsUA, created, xhrMap,
                   listeners, xhr, events, nextId, now, sends, signalled,
                   enabled>>

Configs ==
    { [defaultConfig EXCEPT !.recordAllRequests = r,
                            !.addXRayTraceIdHeader = a] :
        r \in BOOLEAN, a \in HeaderSettings }

AuthInit ==
    /\ credentials = None
    /\ localStorage = None
    /\ pc = [i \in Invocations |-> "idle"]
    /\ retries = [i \in Invocations |-> 0]
    /\ getIdResponse = [i \in Invocations |-> None]
    /\ getOpenIdTokenResponse = [i \in Invocations |-> None]
    /\ outcome = [i \in Invocations |-> None]
    /\ attempts = [i \in Invocations |-> 0]
    /\ requests = [i \in Invocations |-> << >>]
    /\ issued = 0
    /\ invocations = 0
    /\ atInvoke = [i \in Invocations |->
                      [credentials |-> None, localStorage |-> None]]

XhrInit ==
    /\ config \in Configs
    /\ context \in [enableXRay : BOOLEAN, enableW3CTraceId : BOOLEAN]
    /\ session \in Sessions
    /\ isSyntheticsUA \in BOOLEAN
    /\ created = {"xhr1"}
    /\ xhrMap = [h \in Handles |-> None]
    /\ listeners = [h \in Handles |-> FALSE]
    /\ xhr = [h \in Handles |-> newXhr]
    /\ events = << >>
    /\ nextId = 0
    /\ now = 0
    /\ sends = 0
    /\ signalled = [h \in Handles |-> 0]
    /\ enabled = TRUE

Init == AuthInit /\ XhrInit

Next ==
    \/ \E h \in created, r \in Requests : openWrapper(h, r[1], r[2], r[3])
    \/ \E h \in created : sendWrapper(h)
    \/ \E h \in created, r \in LoadResponses : Load(h, r[1], r[2])
    \/ \E h \in created, e \in ErrorStatuses : Error(h, e[1], e[2])
    \/ \E h \in created : Abort(h)
    \/ \E h \in created : Timeout(h)
    \/ \E s \in Sessions : SessionChange(s)

vars == <<xhrVars, authVars>>

Spec == Init /\ [][Next]_vars

(***************************************************************************)
(* The credential provider on its own: the plugin state does not change.   *)
(***************************************************************************)
AuthNext ==
    \/ \E i \in Invocations : Invoke(i)
    \/ \E i \in Invocations : Reject(i)
    \/ \E i \in Invocations : GetIdResolve(i)
    \/ \E i \in Invocations : GetOpenIdTokenResolve(i)
    \/ \E i \in Invocations, stored \in BOOLEAN : AssumeRoleResolve(i, stored)

\* The plugin is constructed with no argument and stays idle.
AuthSpecInit ==
    /\ AuthInit
    /\ XhrInit
    /\ config = defaultConfig
    /\ context = [enableXRay |-> FALSE, enableW3CTraceId |-> FALSE]
    /\ session = None
    /\ ~isSyntheticsUA

AuthSpec == AuthSpecInit /\ [][AuthNext]_vars

(***************************************************************************)
(* One handle under one configuration (everything recorded, tracing on,    *)
(* session recorded), with every response status from 0 to MaxStatus.      *)
(***************************************************************************)
StatusInit ==
    /\ AuthInit
    /\ XhrInit
    /\ config = [defaultConfig EXCEPT !.recordAllRequests = TRUE]
    /\ context = [enableXRay |-> TRUE, enableW3CTraceId |-> FALSE]
    /\ session = Some([record |-> TRUE])
    /\ ~isSyntheticsUA

StatusNext ==
    \/ \E h \in created : openWrapper(h, "GET", UrlAws, TRUE)
    \/ \E h \in created : sendWrapper(h)
    \/ \E h \in created, status \in 0..MaxStatus : Load(h, status, None)

StatusSpec == StatusInit /\ [][StatusNext]_vars

(***************************************************************************)
(* Vocabulary of the properties.                                           *)
(***************************************************************************)
IsTraceEvent(e) == e.type = XRAY_TRACE_EVENT_TYPE
IsHttpEvent(e) == e.type = HTTP_EVENT_TYPE

\* Number of events of a type recorded for handle h in a log.
Count(log, h, type) ==
    Cardinality({k \in 1..Len(log) : log[k].handle = h /\ log[k].type = type})
TraceCount(log, h) == Count(log, h, XRAY_TRACE_EVENT_TYPE)
HttpCount(log, h) == Count(log, h, HTTP_EVENT_TYPE)

\* The send of h was tracked and its first completion event has been handled.
Completed(h) == xhr[h].tracked /\ xhr[h].readyState = "DONE"

\* This step dispatches an event for h: the first of its send, a later one.
DispatchStep(h) == signalled'[h] = signalled[h] + 1
FirstSignal(h) == DispatchStep(h) /\ xhr[h].readyState = "SENT"
LaterSignal(h) == DispatchStep(h) /\ xhr[h].readyState = "DONE"

\* This step is a send of h that goes out.
SendStep(h) == xhr[h].readyState = "OPENED" /\ xhr'[h].readyState = "SENT"

SessionIsRecorded == session # None /\ Get(session).record

\* The events this step adds to the log.
Added == { k \in 1..Len(events') : k > Len(events) }

(***************************************************************************)
(* C1.  Of the completion events dispatched for one send of a tracked      *)
(* call, only the first is acted upon: every later one records no event    *)
(* and changes nothing of the plugin or of the handle.                     *)
(***************************************************************************)
C1_OnlyFirstSignalActs ==
    [][\A h \in Handles :
          (xhr[h].tracked /\ LaterSignal(h)) =>
              /\ events' = events
              /\ xhrMap' = xhrMap
              /\ listeners' = listeners
              /\ nextId' = nextId
              /\ xhr' = xhr]_vars

\* A tracked call whose first event recorded something and which was sent a
\* second event.
C1_Witness ==
    \E h \in Handles :
        /\ Completed(h)
        /\ signalled[h] >= 2
        /\ HttpCount(events, h) = 1
        /\ xhrMap[h] = None

(***************************************************************************)
(* C2, as stated: every completed call has exactly one HTTP event and at   *)
(* most one trace event, and no record in the map.                         *)
(***************************************************************************)
C2_ExactlyOneHttpEvent ==
    \A h \in Handles :
        Completed(h) =>
            /\ HttpCount(events, h) = 1
            /\ TraceCount(events, h) <= 1
            /\ xhrMap[h] = None

(***************************************************************************)
(* C2, amended: every completed call has at most one trace event and no    *)
(* record in the map; it has exactly one HTTP event, except that a call    *)
(* that completed with a response of status 200..299 while                 *)
(* recordAllRequests is false has none.                                    *)
(***************************************************************************)
C2_AtMostOneOfEach ==
    \A h \in Handles :
        Completed(h) =>
            /\ TraceCount(events, h) <= 1
            /\ xhrMap[h] = None
            /\ HttpCount(events, h) =
                  IF /\ xhr[h].completion = "load"
                     /\ xhr[h].status \in 200..299
                     /\ ~config.recordAllRequests
                  THEN 0
                  ELSE 1

\* A call that completed, was sent a second event, and has one event of
\* each kind.
C2_Witness ==
    \E h \in Handles :
        /\ Completed(h)
        /\ signalled[h] >= 2
        /\ HttpCount(events, h) = 1
        /\ TraceCount(events, h) = 1

(***************************************************************************)
(* C3.  A call that completes by error, abort or timeout records an HTTP   *)
(* event under every configuration; a call that completes with a response  *)
(* records one if and only if recordAllRequests is true or the status is   *)
(* outside 200..299.                                                       *)
(***************************************************************************)
C3_HttpEmissionPolicy ==
    [][\A h \in Handles :
          (xhr[h].tracked /\ FirstSignal(h)) =>
              LET added == HttpCount(events', h) - HttpCount(events, h) IN
              IF xhr'[h].completion = "load"
              THEN /\ added \in {0, 1}
                   /\ added = 1 <=>
                         \/ config.recordAllRequests
                         \/ xhr'[h].status \notin 200..299
              ELSE added = 1]_vars

\* A response with a status just outside 2xx was recorded although
\* recordAllRequests is false.
C3_Witness ==
    \E h \in Handles :
        /\ Completed(h)
        /\ xhr[h].completion = "load"
        /\ xhr[h].status = 300
        /\ ~config.recordAllRequests
        /\ HttpCount(events, h) = 1

(***************************************************************************)
(* C4, as stated: in every trace recorded with a response of status s,     *)
(* s = 429 gives throttle, 400 <= s < 500 gives error and 500 <= s < 600   *)
(* gives fault, each on the trace root and on the subsegment; any other    *)
(* status gives no flag; the root's flags equal the subsegment's and at    *)
(* most one flag is set.                                                   *)
(***************************************************************************)
FlagsOf(node) ==
    {f \in {"throttle", "error", "fault"} :
        \/ f = "throttle" /\ node.throttle
        \/ f = "error" /\ node.error
        \/ f = "fault" /\ node.fault}

RespondedTraces ==
    { events[k].payload : k \in
        { j \in 1..Len(events) :
            /\ IsTraceEvent(events[j])
            /\ events[j].payload.subsegments[1].http.response # None } }

ResponseStatus(trace) == Get(trace.subsegments[1].http.response).status

C4_ClassificationAsStated ==
    \A trace \in RespondedTraces :
        LET s == ResponseStatus(trace)
            root == FlagsOf(trace)
            sub == FlagsOf(trace.subsegments[1])
        IN  /\ s = 429 => "throttle" \in root /\ "throttle" \in sub
            /\ (400 <= s /\ s < 500) => "error" \in root /\ "error" \in sub
            /\ (500 <= s /\ s < 600) => "fault" \in root /\ "fault" \in sub
            /\ (s < 400 \/ s >= 600) => root = {} /\ sub = {}
            /\ root = sub
            /\ Cardinality(root) <= 1

(***************************************************************************)
(* C4, amended: as stated, except that error is set for 400 <= s < 500     *)
(* other than 429; for 429 throttle alone is set.                          *)
(***************************************************************************)
C4_Classification ==
    \A trace \in RespondedTraces :
        LET s == ResponseStatus(trace)
            expected ==
                IF s = 429 THEN {"throttle"}
                ELSE IF 400 <= s /\ s < 500 THEN {"error"}
                ELSE IF 500 <= s /\ s < 600 THEN {"fault"}
                ELSE {}
        IN  /\ FlagsOf(trace) = expected
            /\ FlagsOf(trace.subsegments[1]) = expected

\* A trace recorded for a response of status 429.
C4_Witness ==
    \E trace \in RespondedTraces :
        ResponseStatus(trace) = 429 /\ trace.throttle

(***************************************************************************)
(* C5.  When a tracked call completes, a trace event is recorded if and    *)
(* only if at that moment enableXRay is true, getSession() is defined with *)
(* record = true, and the user agent is not the synthetic one; the HTTP    *)
(* event follows its own policy whatever the session is.                   *)
(***************************************************************************)
C5_TraceEventGates ==
    [][\A h \in Handles :
          (xhr[h].tracked /\ FirstSignal(h)) =>
              /\ TraceCount(events', h) - TraceCount(events, h) =
                    IF /\ context.enableXRay
                       /\ SessionIsRecorded
                       /\ ~isSyntheticsUA
                    THEN 1
                    ELSE 0
              /\ HttpCount(events', h) - HttpCount(events, h) =
                    IF \/ xhr'[h].completion # "load"
                       \/ config.recordAllRequests
                       \/ xhr'[h].status \notin 200..299
                    THEN 1
                    ELSE 0]_vars

\* A call completed with tracing on and a real user agent, and has an HTTP
\* event but no trace event: the session was not recorded then.
C5_Witness ==
    \E h \in Handles :
        /\ Completed(h)
        /\ context.enableXRay
        /\ ~isSyntheticsUA
        /\ TraceCount(events, h) = 0
        /\ HttpCount(events, h) = 1

(***************************************************************************)
(* C6.  When a tracked call is sent, a trace header is added to it if and  *)
(* only if the addXRayTraceIdHeader setting enables the URL of the call    *)
(* (true, or a list with a regular expression that matches it), tracing is *)
(* enabled, the session is recorded and the user agent is not synthetic.   *)
(***************************************************************************)
HeaderSettingEnables(url) ==
    LET setting == config.addXRayTraceIdHeader IN
    IF setting.list
    THEN \E re \in setting.res : Matches(re, url)
    ELSE setting.on

C6_HeaderIffAllGates ==
    [][\A h \in Handles :
          (SendStep(h) /\ xhr'[h].tracked) =>
              (xhr'[h].headers # << >> <=>
                  /\ HeaderSettingEnables(Get(xhr[h].url))
                  /\ context.enableXRay
                  /\ SessionIsRecorded
                  /\ ~isSyntheticsUA)]_vars

(***************************************************************************)
(* C7.  A call carries at most one trace header; its name is traceparent   *)
(* if enableW3CTraceId is true and X-Amzn-Trace-Id otherwise, and its      *)
(* value is encoded in the format in which the trace id was minted.        *)
(***************************************************************************)
HeaderTraceId(value) ==
    IF value.encoding = "w3c" THEN value.traceId ELSE value.Root

C7_OneHeaderOneFormat ==
    \A h \in Handles :
        /\ Len(xhr[h].headers) <= 1
        /\ \A k \in 1..Len(xhr[h].headers) :
              LET header == xhr[h].headers[k] IN
              /\ header.name = IF context.enableW3CTraceId
                               THEN "traceparent"
                               ELSE "X-Amzn-Trace-Id"
              /\ header.value.encoding = IF context.enableW3CTraceId
                                         THEN "w3c"
                                         ELSE "xray"
              /\ HeaderTraceId(header.value).format = header.value.encoding

\* A call that carries a traceparent header.
C7_Witness ==
    \E h \in Handles :
        /\ xhr[h].readyState = "SENT"
        /\ Len(xhr[h].headers) = 1
        /\ xhr[h].headers[1].name = "traceparent"

(***************************************************************************)
(* C8.  An HTTP event carries trace_id and segment_id if and only if       *)
(* enableXRay is true when the call completes; then trace_id is the trace  *)
(* id of the call's trace and segment_id the id of its one subsegment.     *)
(***************************************************************************)
C8_HttpEventTraceIds ==
    [][\A k \in Added :
          LET e == events'[k] IN
          IsHttpEvent(e) =>
              LET trace == Get(Get(xhrMap[e.handle]).trace) IN
              /\ e.payload.trace_id # None <=> context.enableXRay
              /\ e.payload.segment_id # None <=> context.enableXRay
              /\ Len(trace.subsegments) = 1
              /\ context.enableXRay =>
                    /\ e.payload.trace_id = Some(trace.trace_id)
                    /\ e.payload.segment_id = Some(trace.subsegments[1].id)
       ]_vars

\* An HTTP event that carries a trace_id and a segment_id.
C8_Witness ==
    \E k \in 1..Len(events) :
        /\ IsHttpEvent(events[k])
        /\ events[k].payload.trace_id # None
        /\ events[k].payload.segment_id # None

(***************************************************************************)
(* C9.  A call opened with a URL that fails the URL filter has no record   *)
(* in the map, and no trace event and no HTTP event is ever recorded for   *)
(* it.                                                                     *)
(***************************************************************************)
C9_FilteredCallsRecordNothing ==
    \A h \in Handles :
        (xhr[h].url # None /\ ~isUrlAllowed(Get(xhr[h].url), config)) =>
            /\ xhrMap[h] = None
            /\ TraceCount(events, h) = 0
            /\ HttpCount(events, h) = 0

(***************************************************************************)
(* C10.  A call of the provider never starts a third attempt; the call     *)
(* throws only after its second attempt has failed, and what it throws is  *)
(* the failure of that second attempt.                                     *)
(***************************************************************************)
C10_TwoAttemptsThenThrow ==
    \A i \in Invocations :
        /\ attempts[i] <= 2
        /\ Len(requests[i]) <= 6
        /\ attempts[i] = 2 => retries[i] = 0
        /\ pc[i] = "thrown" =>
              /\ attempts[i] = 2
              /\ outcome[i] # None
              /\ Get(outcome[i]).threw.attempt = 2

\* A call of the provider has thrown.
C10_Witness ==
    \E i \in Invocations :
        /\ pc[i] = "thrown"
        /\ attempts[i] = 2

(***************************************************************************)
(* Vocabulary of the properties of the credential provider.                *)
(***************************************************************************)
\* This step is step (c) of call i succeeding: the call returns.
ReturnStep(i) == pc[i] = "assumeRole" /\ pc'[i] = "returned"
\* This step is call i throwing.
ThrowStep(i) == pc[i] # "thrown" /\ pc'[i] = "thrown"
\* Call i is suspended at one of its awaits.
Suspended(i) == pc[i] \in {"getId", "getOpenIdToken", "assumeRole"}
\* The requests of call i that name an operation, by position.
RequestsOf(i, op) ==
    {k \in 1..Len(requests[i]) : requests[i][k].op = op}
\* What step (c) answers to the request call i issued last.
StepCResult(i) == AssumeRoleOutput(requests[i][Len(requests[i])].input)

(***************************************************************************)
(* C11.  When the first attempt of a call failed and its second attempt    *)
(* succeeds, the call returns the credentials of the second attempt (the   *)
(* answer to the assume-role request that ends the three requests of the   *)
(* second attempt), and they become this.credentials; the call does not    *)
(* throw.                                                                  *)
(***************************************************************************)
C11_SecondAttemptSucceeds ==
    [][\A i \in Invocations :
          (ReturnStep(i) /\ attempts[i] = 2) =>
              LET n == Len(requests[i]) IN
              /\ n >= 4
              /\ requests[i][n - 2].op = "getId"
              /\ requests[i][n - 1].op = "getOpenIdToken"
              /\ requests[i][n].op = "assumeRoleWithWebIdentity"
              /\ Cardinality(RequestsOf(i, "getId")) = 2
              /\ outcome'[i] = Some([returned |-> StepCResult(i)])
              /\ credentials' = Some(StepCResult(i))]_vars

\* A call returned from its second attempt.
C11_Witness ==
    \E i \in Invocations :
        /\ pc[i] = "returned"
        /\ attempts[i] = 2
        /\ credentials = Some(Get(outcome[i]).returned)

(***************************************************************************)
(* C12, as stated: while a call is suspended at an await, and after it has *)
(* thrown, this.credentials and the stored entry are what they were when   *)
(* the call started.                                                       *)
(***************************************************************************)
C12_UnchangedSinceInvoke ==
    \A i \in Invocations :
        (Suspended(i) \/ pc[i] = "thrown") =>
            /\ credentials = atInvoke[i].credentials
            /\ localStorage = atInvoke[i].localStorage

(***************************************************************************)
(* C12, amended: this.credentials and the stored entry are written only by *)
(* a step (c) that succeeds; no step of an attempt that fails writes       *)
(* either.  While a call is suspended at an await, and after it has        *)
(* thrown, each of the two is what it was when the call started, or what   *)
(* an exchange of another call produced in the meantime.                   *)
(***************************************************************************)
\* The credentials of the exchanges call i has taken to step (b).
OwnResults(i) ==
    { AssumeRoleOutput(
          assumeRoleRequest(GetOpenIdTokenOutput(requests[i][k].input)).input)
      : k \in RequestsOf(i, "getOpenIdToken") }

NotWrittenBy(i) ==
    /\ \/ credentials = atInvoke[i].credentials
       \/ credentials # None /\ Get(credentials) \notin OwnResults(i)
    /\ \/ localStorage = atInvoke[i].localStorage
       \/ localStorage # None /\ Get(localStorage) \notin OwnResults(i)

C12_WrittenOnlyOnSuccess ==
    [][/\ (credentials' # credentials \/ localStorage' # localStorage) =>
              \E i \in Invocations :
                  /\ ReturnStep(i)
                  /\ credentials' = Some(StepCResult(i))
                  /\ localStorage' \in {localStorage, credentials'}
       /\ \A i \in Invocations :
              (ThrowStep(i) \/ attempts'[i] = attempts[i] + 1) =>
                  /\ credentials' = credentials
                  /\ localStorage' = localStorage
       /\ \A i \in Invocations :
              (Suspended(i) \/ pc[i] = "thrown")' => NotWrittenBy(i)'
      ]_vars

\* A call threw while credentials of an earlier call are cached and stored.
C12_Witness ==
    \E i \in Invocations :
        /\ pc[i] = "thrown"
        /\ credentials # None
        /\ localStorage = credentials
        /\ credentials = atInvoke[i].credentials

(***************************************************************************)
(* C13.  When step (c) succeeds, so that its answer is assigned to         *)
(* this.credentials, and the write to local storage fails, the call        *)
(* returns that answer; it does not throw, retries is not consumed, no     *)
(* further attempt starts and no further request is issued.                *)
(***************************************************************************)
C13_StorageFailureSwallowed ==
    [][\A i \in Invocations :
          (/\ pc[i] = "assumeRole"
           /\ credentials' = Some(StepCResult(i))
           /\ localStorage' # Some(StepCResult(i))) =>
              /\ pc'[i] = "returned"
              /\ outcome'[i] = Some([returned |-> StepCResult(i)])
              /\ localStorage' = localStorage
              /\ retries'[i] = retries[i]
              /\ attempts'[i] = attempts[i]
              /\ requests'[i] = requests[i]]_vars

\* A call returned credentials that were cached but not stored.
C13_Witness ==
    \E i \in Invocations :
        /\ pc[i] = "returned"
        /\ retries[i] = 1
        /\ credentials = Some(Get(outcome[i]).returned)
        /\ localStorage # credentials

(***************************************************************************)
(* C14.  this.credentials is its initial value or the whole answer of      *)
(* step (c) to one exchange: all its fields come from the token of one     *)
(* identity.  Every write makes it the whole answer of the step (c) that   *)
(* just succeeded.                                                         *)
(***************************************************************************)
ExchangeResult(k) ==
    AssumeRoleOutput(
        assumeRoleRequest(GetOpenIdTokenOutput(GetIdOutput(k))).input)

C14_CredentialsOfOneExchange ==
    [][/\ \/ credentials' = None
          \/ \E k \in 1..issued' : credentials' = Some(ExchangeResult(k))
       /\ credentials' # credentials =>
             \E i \in Invocations :
                 /\ ReturnStep(i)
                 /\ credentials' = Some(Get(outcome'[i]).returned)
                 /\ Get(outcome'[i]).returned = StepCResult(i)]_vars

\* Credentials of a second exchange have replaced those of a first.
C14_Witness ==
    /\ \A i \in Invocations : pc[i] = "returned"
    /\ \E i, j \in Invocations :
          /\ i # j
          /\ credentials = Some(Get(outcome[i]).returned)
          /\ credentials # Some(Get(outcome[j]).returned)

(***************************************************************************)
(* C15.  The requests of a call come in attempts: each attempt starts with *)
(* get-identity; get-open-id-token is issued only after the get-identity   *)
(* before it and is given its answer; assume-role is issued only after the *)
(* get-open-id-token before it, with the token of its answer, session name *)
(* 'cwr' and the configured role ARN.  A call has started as many attempts *)
(* as it has issued get-identity requests.                                 *)
(***************************************************************************)
C15_StepsInOrder ==
    \A i \in Invocations :
        /\ attempts[i] = Cardinality(RequestsOf(i, "getId"))
        /\ Len(requests[i]) >= 1 => requests[i][1].op = "getId"
        /\ \A k \in 1..Len(requests[i]) :
              LET r == requests[i][k] IN
              /\ r.op = "getId" =>
                    r.input = [IdentityPoolId |-> identityPoolId]
              /\ r.op = "getOpenIdToken" =>
                    /\ k > 1
                    /\ requests[i][k - 1].op = "getId"
                    /\ \E n \in 1..issued : r.input = GetIdOutput(n)
                    /\ (k = Len(requests[i]) /\ pc[i] = "getOpenIdToken") =>
                          r.input = Get(getIdResponse[i])
              /\ r.op = "assumeRoleWithWebIdentity" =>
                    /\ k > 2
                    /\ requests[i][k - 1].op = "getOpenIdToken"
                    /\ requests[i][k - 2].op = "getId"
                    /\ r.input.WebIdentityToken =
                          GetOpenIdTokenOutput(requests[i][k - 1].input).Token
                    /\ r.input.RoleSessionName = "cwr"
                    /\ r.input.RoleArn = guestRoleArn

\* A call whose first attempt failed at step (c) is at step (c) of its second.
C15_Witness ==
    \E i \in Invocations :
        /\ pc[i] = "assumeRole"
        /\ attempts[i] = 2
        /\ Len(requests[i]) = 6

(***************************************************************************)
(* Vocabulary: what a step records, and how a call completes.              *)
(***************************************************************************)
AddedTraces(h) ==
    { events'[k].payload : k \in
        {j \in Added : events'[j].handle = h /\ IsTraceEvent(events'[j])} }
AddedHttp(h) ==
    { events'[k].payload : k \in
        {j \in Added : events'[j].handle = h /\ IsHttpEvent(events'[j])} }
\* This step handles the first completion event of a tracked call of h, and
\* the event is of one of the given kinds.
CompletesBy(h, kinds) ==
    xhr[h].tracked /\ FirstSignal(h) /\ xhr'[h].completion \in kinds
\* A trace event is recorded in this step.
TraceIsRecorded == context.enableXRay /\ SessionIsRecorded /\ ~isSyntheticsUA
CauseName(kind) ==
    IF kind = "abort" THEN "XMLHttpRequest abort" ELSE "XMLHttpRequest timeout"

C17_NetworkErrorIsFault ==
    [][\A h \in Handles :
          CompletesBy(h, {"error"}) =>
              /\ TraceIsRecorded <=> AddedTraces(h) # {}
              /\ \A t \in AddedTraces(h) :
                    /\ t.fault
                    /\ t.subsegments[1].fault
                    /\ t.subsegments[1].cause # None
                    /\ Len(Get(t.subsegments[1].cause).exceptions) = 1
                    /\ Get(t.subsegments[1].cause).exceptions[1].type =
                          "XMLHttpRequest error"
                    /\ t.subsegments[1].http.response = None
              /\ Cardinality(AddedHttp(h)) = 1
              /\ \A e \in AddedHttp(h) :
                    e.error # None /\ e.response = None]_vars

\* A call that failed with the error event has a trace event and an HTTP
\* event.
C17_Witness ==
    \E h \in Handles :
        /\ Completed(h)
        /\ xhr[h].completion = "error"
        /\ xhr[h].statusText = "Failed"
        /\ TraceCount(events, h) = 1
        /\ HttpCount(events, h) = 1

(***************************************************************************)
(* C18.  Every HTTP event has exactly one of a response and an error.  The *)
(* event of a call that received a response has the response, with the     *)
(* status and statusText of the call, and no error; the event of a call    *)
(* that failed without a response has an error and no response.            *)
(***************************************************************************)
C18_ResponseXorError ==
    [][/\ \A k \in 1..Len(events') :
              IsHttpEvent(events'[k]) =>
                  (events'[k].payload.response # None) #
                      (events'[k].payload.error # None)
       /\ \A h \in Handles :
              /\ CompletesBy(h, {"load"}) =>
                    \A e \in AddedHttp(h) :
                        /\ e.response = Some([status |-> xhr'[h].status,
                                              statusText |-> xhr'[h].statusText])
                        /\ e.error = None
              /\ CompletesBy(h, {"error", "abort", "timeout"}) =>
                    \A e \in AddedHttp(h) :
                        e.response = None /\ e.error # None]_vars

\* The HTTP event of a response of status 429.
C18_Witness ==
    \E k \in 1..Len(events) :
        /\ IsHttpEvent(events[k])
        /\ events[k].payload.response # None
        /\ Get(events[k].payload.response).status = 429
        /\ events[k].payload.error = None

(***************************************************************************)
(* C19.  No subsegment has both http.response and cause: neither in a      *)
(* trace that was recorded nor in the trace of a record of the map.        *)
(***************************************************************************)
ResponseAndCause(trace) ==
    \E k \in 1..Len(trace.subsegments) :
        /\ trace.subsegments[k].http.response # None
        /\ trace.subsegments[k].cause # None

C19_ResponseCauseExclusive ==
    /\ \A k \in 1..Len(events) :
          IsTraceEvent(events[k]) => ~ResponseAndCause(events[k].payload)
    /\ \A h \in Handles :
          (xhrMap[h] # None /\ Get(xhrMap[h]).trace # None) =>
              ~ResponseAndCause(Get(Get(xhrMap[h]).trace))

\* A trace with a cause and no response was recorded for a call that was
\* sent an event after its first.
C19_Witness ==
    \E k \in 1..Len(events) :
        /\ IsTraceEvent(events[k])
        /\ events[k].payload.subsegments[1].cause # None
        /\ events[k].payload.subsegments[1].http.response = None
        /\ signalled[events[k].handle] >= 2

(***************************************************************************)
(* C20, as stated: a tracked call that receives status 500 with tracing    *)
(* enabled and the X-Ray format records a trace with fault = true on the   *)
(* root and on the subsegment and with cause.exceptions[0].type present,   *)
(* and an HTTP event with the trace_id and segment_id of that trace.       *)
(***************************************************************************)
Is500WithXRay(h) ==
    /\ CompletesBy(h, {"load"})
    /\ xhr'[h].status = 500
    /\ context.enableXRay
    /\ ~context.enableW3CTraceId

HttpEventMatches(e, t) ==
    /\ e.trace_id = Some(t.trace_id)
    /\ e.segment_id = Some(t.subsegments[1].id)

C20_Status500WithCause ==
    [][\A h \in Handles :
          Is500WithXRay(h) =>
              \A t \in AddedTraces(h) :
                  /\ t.fault
                  /\ t.subsegments[1].fault
                  /\ t.subsegments[1].cause # None
                  /\ \A e \in AddedHttp(h) : HttpEventMatches(e, t)]_vars

(***************************************************************************)
(* C20, amended: as stated, except that the subsegment has no cause: it    *)
(* has http.response with status 500.                                      *)
(***************************************************************************)
C20_Status500 ==
    [][\A h \in Handles :
          Is500WithXRay(h) =>
              /\ TraceIsRecorded <=> AddedTraces(h) # {}
              /\ Cardinality(AddedHttp(h)) = 1
              /\ \A t \in AddedTraces(h) :
                    /\ t.fault
                    /\ t.subsegments[1].fault
                    /\ t.trace_id.format = "xray"
                    /\ t.subsegments[1].cause = None
                    /\ t.subsegments[1].http.response # None
                    /\ Get(t.subsegments[1].http.response).status = 500
                    /\ \A e \in AddedHttp(h) : HttpEventMatches(e, t)]_vars

\* A response of status 500 has a trace event and an HTTP event with the
\* ids of the trace.
C20_Witness ==
    \E h \in Handles :
        /\ Completed(h)
        /\ xhr[h].status = 500
        /\ ~context.enableW3CTraceId
        /\ \E j, k \in 1..Len(events) :
              /\ IsTraceEvent(events[j])
              /\ IsHttpEvent(events[k])
              /\ events[j].payload.fault
              /\ HttpEventMatches(events[k].payload, events[j].payload)

(***************************************************************************)
(* FetchPlugin, the promise-style interceptor, as the specification and    *)
(* the tests of FetchPlugin describe it.  A fetch ends with a response of  *)
(* some status or is rejected with an error; the trace it began at the     *)
(* call is completed and recorded, then the HTTP event.                    *)
(***************************************************************************)
fetchClassify(trace, status) ==
    LET throttle == status = 429
        error == ~throttle /\ status >= 400 /\ status < 500
        fault == ~throttle /\ ~error /\ status >= 500 /\ status < 600
    IN  [trace EXCEPT
           !.throttle = throttle, !.error = error, !.fault = fault,
           !.subsegments[1].throttle = throttle,
           !.subsegments[1].error = error,
           !.subsegments[1].fault = fault]

\* result: [response |-> Some(status), error |-> None] for a response,
\* [response |-> None, error |-> Some(name)] for a rejected promise.
fetchEndTrace(trace, result, endTime) ==
    LET t == [trace EXCEPT !.end_time = Some(endTime),
                           !.subsegments[1].end_time = Some(endTime)]
    IN  IF result.response # None
        THEN fetchClassify(
                 [t EXCEPT !.subsegments[1].http.response =
                     Some([status |-> Get(result.response),
                           content_length |-> None])],
                 Get(result.response))
        ELSE [t EXCEPT
                !.fault = TRUE,
                !.subsegments[1].fault = TRUE,
                !.subsegments[1].cause =
                    Some([exceptions |->
                            << [type |-> Get(result.error),
                                message |-> None] >>])]

fetchHttpEvent(request, result) ==
    [ version |-> "1.0.0",
      request |-> request,
      response |-> IF result.response # None
                   THEN Some([status |-> Get(result.response),
                              statusText |->
                                  StatusText(Get(result.response))])
                   ELSE None,
      error |-> IF result.error # None
                THEN Some([version |-> "1.0.0",
                           type |-> Get(result.error)])
                ELSE None,
      trace_id |-> None,
      segment_id |-> None ]

\* The events a fetch records when it ends, in the order it records them.
fetchRecord(trace, request, result, endTime) ==
    LET ok == /\ result.response # None
              /\ Get(result.response) >= 200
              /\ Get(result.response) < 300
        traceEvents ==
            IF ~isSyntheticsUA /\ isTracingEnabled /\ isSessionRecorded
            THEN << [type |-> XRAY_TRACE_EVENT_TYPE,
                     payload |-> fetchEndTrace(trace, result, endTime)] >>
            ELSE << >>
        httpEvents ==
            IF config.recordAllRequests \/ ~ok
            THEN << [type |-> HTTP_EVENT_TYPE,
                     payload |-> fetchHttpEvent(request, result)] >>
            ELSE << >>
    IN  traceEvents \o httpEvents

(***************************************************************************)
(* Vocabulary: the shape of an event.  Of a trace, the severity flags of   *)
(* the root and of the subsegment and the presence of http.response and of *)
(* cause; of an HTTP event, the presence of response and of error.         *)
(***************************************************************************)
EventShape(e) ==
    IF e.type = XRAY_TRACE_EVENT_TYPE
    THEN [ type |-> e.type,
           root |-> FlagsOf(e.payload),
           subsegment |-> FlagsOf(e.payload.subsegments[1]),
           response |-> e.payload.subsegments[1].http.response # None,
           cause |-> e.payload.subsegments[1].cause # None ]
    ELSE [ type |-> e.type,
           root |-> {},
           subsegment |-> {},
           response |-> e.payload.response # None,
           cause |-> e.payload.error # None ]

ShapesOf(log) == [k \in 1..Len(log) |-> EventShape(log[k])]

\* The events this step appends to the log, in order.
AddedSeq ==
    IF Len(events') > Len(events)
    THEN SubSeq(events', Len(events) + 1, Len(events'))
    ELSE << >>

\* The result of a fetch that corresponds to the completion of h in this
\* step: a load with status s is a response with status s, the error event
\* is a rejected promise.
FetchOutcomeOf(h) ==
    IF xhr'[h].completion = "load"
    THEN [response |-> Some(xhr'[h].status), error |-> None]
    ELSE [response |-> None, error |-> Some("TypeError")]

TwoRequests ==
    { <<"GET", UrlAws, TRUE>>, <<"POST", UrlAws, TRUE>>,
      <<"GET", UrlCognito, TRUE>> }

TwoInit ==
    /\ AuthInit
    /\ config = [defaultConfig EXCEPT !.recordAllRequests = TRUE]
    /\ context = [enableXRay |-> TRUE, enableW3CTraceId |-> FALSE]
    /\ session = Some([record |-> TRUE])
    /\ isSyntheticsUA = FALSE
    /\ created = Handles
    /\ xhrMap = [h \in Handles |-> None]
    /\ listeners = [h \in Handles |-> FALSE]
    /\ xhr = [h \in Handles |-> newXhr]
    /\ events = << >>
    /\ nextId = 0
    /\ now = 0
    /\ sends = 0
    /\ signalled = [h \in Handles |-> 0]
    /\ enabled = TRUE

TwoNext ==
    \/ \E h \in created, r \in TwoRequests :
          openWrapper(h, r[1], r[2], r[3])
    \/ \E h \in created : sendWrapper(h)
    \/ \E h \in created : Load(h, 200, Some("42"))
    \/ \E h \in created : Error(h, 0, "")
    \/ \E h \in created : Abort(h)

TwoSpec == TwoInit /\ [][TwoNext]_vars

(***************************************************************************)
(* Vocabulary: the step is an operation (open, send or completion event)   *)
(* of handle h alone.                                                      *)
(***************************************************************************)
OperationOf(h) ==
    \/ xhr'[h] # xhr[h]
    \/ signalled'[h] # signalled[h]
    \/ xhrMap'[h] # xhrMap[h]

\* The events of handle g in the log before and after the step.
EventsOfAfter(g) == SelectSeq(events', LAMBDA e : e.handle = g)

\* An operation of one handle leaves the record, the trace, the listeners
\* and the events of every other handle as they are.
OtherCallsUntouched ==
    [][\A h \in Handles :
          OperationOf(h) =>
              \A g \in Handles \ {h} :
                  /\ xhrMap'[g] = xhrMap[g]
                  /\ xhr'[g] = xhr[g]
                  /\ listeners'[g] = listeners[g]
                  /\ EventsOfAfter(g) = eventsOf(g)]_vars

\* Traces and HTTP events recorded for different handles never share a
\* trace_id or a segment id.
OwnTraceIds ==
    \A j, k \in 1..Len(events) :
        /\ events[j].handle # events[k].handle
        /\ IsTraceEvent(events[j]) /\ IsTraceEvent(events[k])
        => /\ events[j].payload.trace_id # events[k].payload.trace_id
           /\ events[j].payload.subsegments[1].id #
                  events[k].payload.subsegments[1].id

(***************************************************************************)
(* C22.  Call state is keyed by call identity: an operation of one call    *)
(* leaves the record, the trace and the events of every other call         *)
(* unchanged, and the events recorded for a call carry the method and url  *)
(* of that call and trace ids of its own.                                  *)
(***************************************************************************)
C22_IndependentOwnData ==
    [][/\ \A h \in Handles :
             OperationOf(h) =>
                 \A g \in Handles \ {h} :
                     /\ xhrMap'[g] = xhrMap[g]
                     /\ EventsOfAfter(g) = eventsOf(g)
       /\ \A k \in Added :
             LET e == events'[k] IN
             /\ IsHttpEvent(e) =>
                   /\ e.payload.request.method = Get(xhr'[e.handle].method)
                   /\ e.payload.request.url = Get(xhr'[e.handle].url)
             /\ IsTraceEvent(e) =>
                   /\ e.payload.subsegments[1].http.request.method =
                          Get(xhr'[e.handle].method)
                   /\ e.payload.subsegments[1].http.request.url =
                          Get(xhr'[e.handle].url)
       /\ OwnTraceIds']_vars

(***************************************************************************)
(* Vocabulary: the traces the plugin still holds.  The payload of a trace  *)
(* event is the trace object itself, so a trace can be changed after it    *)
(* was recorded only through a record of xhrMap that still refers to it;   *)
(* the id of the root segment identifies the object.                       *)
(***************************************************************************)
HeldTraces ==
    { Get(Get(xhrMap[h]).trace) :
        h \in {g \in Handles :
                  xhrMap[g] # None /\ Get(xhrMap[g]).trace # None} }

EmittedTraces ==
    { events[k].payload :
        k \in {j \in 1..Len(events) : IsTraceEvent(events[j])} }

(***************************************************************************)
(* C23.  end_time is set exactly once, when the call completes, with the   *)
(* same value on the trace root and on its subsegment: a trace the plugin  *)
(* holds has no end_time, a recorded trace has the time of its completion  *)
(* on both, and no record of the plugin refers to a recorded trace, so     *)
(* nothing changes it afterwards.                                          *)
(***************************************************************************)
C23_EndTimeOnce ==
    [][/\ \A t \in HeldTraces' :
             t.end_time = None /\ t.subsegments[1].end_time = None
       /\ \A t \in EmittedTraces' :
             /\ t.end_time # None
             /\ t.subsegments[1].end_time = t.end_time
             /\ \A u \in HeldTraces' : u.id # t.id
       /\ \A h \in Handles : \A t \in AddedTraces(h) :
             /\ FirstSignal(h)
             /\ t.end_time = Some(now')
             /\ \E u \in HeldTraces : u.id = t.id /\ u.end_time = None
       /\ \A j, k \in 1..Len(events') :
             /\ IsTraceEvent(events'[j]) /\ IsTraceEvent(events'[k])
             /\ events'[j].payload.id = events'[k].payload.id
             => j = k]_vars

\* Two completion events were dispatched for a call whose trace was
\* recorded at the first: the plugin holds no trace while the recorded one
\* is in the log.
C23_Witness ==
    \E h \in Handles :
        /\ Completed(h)
        /\ signalled[h] = 2
        /\ TraceCount(events, h) = 1
        /\ \E t \in EmittedTraces : t.end_time = Some(1)
        /\ HeldTraces = {}

(***************************************************************************)
(* The application sets a trace header of its own before it sends: the     *)
(* call continues a trace that began elsewhere.  The trace id and the      *)
(* parent id of that trace are none the plugin mints (mint number 0).      *)
(***************************************************************************)
ExistingTraceId(format) == [format |-> format, root |-> 0]
ExistingParentId == <<"subsegment", 0>>

ExistingHeaders ==
    { [ name |-> X_AMZN_TRACE_ID,
        value |-> getAmznTraceIdHeaderValue(ExistingTraceId("xray"),
                                            ExistingParentId) ],
      [ name |-> W3C_TRACEPARENT_HEADER_NAME,
        value |-> getW3CTraceIdHeaderValue(ExistingTraceId("w3c"),
                                           ExistingParentId) ] }

\* XMLHttpRequest.prototype.setRequestHeader, called by the application.
\* The plugin does not wrap it.  It throws unless the handle is OPENED.
setRequestHeader(h, header) ==
    /\ xhr[h].readyState = "OPENED"
    /\ xhr[h].headers = << >>
    /\ xhr' = [xhr EXCEPT ![h].headers = Append(@, header)]
    /\ UNCHANGED authVars
    /\ UNCHANGED <<config, context, session, isSyntheticsUA, created, xhrMap,
                   listeners, events, nextId, now, sends, signalled, enabled>>

HeaderInit ==
    /\ AuthInit
    /\ XhrInit
    /\ config.recordAllRequests
    /\ context.enableXRay
    /\ session = Some([record |-> TRUE])
    /\ ~isSyntheticsUA

HeaderNext ==
    \/ \E h \in created, r \in Requests : openWrapper(h, r[1], r[2], r[3])
    \/ \E h \in created, header \in ExistingHeaders :
          setRequestHeader(h, header)
    \/ \E h \in created : sendWrapper(h)
    \/ \E h \in created : Load(h, 200, Some("42"))
    \/ \E h \in created : Error(h, 0, "")

HeaderSpec == HeaderInit /\ [][HeaderNext]_vars

(***************************************************************************)
(* Vocabulary: the call of h went out with a trace header of the           *)
(* application, in the format that is active.                              *)
(***************************************************************************)
ActiveFormat == IF context.enableW3CTraceId THEN "w3c" ELSE "xray"

CarriesExistingTrace(h) ==
    \E k \in 1..Len(xhr[h].headers) :
        /\ xhr[h].headers[k] \in ExistingHeaders
        /\ xhr[h].headers[k].value.encoding = ActiveFormat

(***************************************************************************)
(* C24.  Continuation: when a call that carries an existing valid trace    *)
(* header in the active format completes, the trace_id of the recorded     *)
(* trace and of the HTTP event is the incoming trace id, and the segment   *)
(* id is freshly minted, not the incoming parent id.                       *)
(***************************************************************************)
C24_Continuation ==
    [][\A h \in Handles :
          CompletesBy(h, {"load", "error"}) /\ CarriesExistingTrace(h) =>
              /\ \A t \in AddedTraces(h) :
                    /\ t.trace_id = ExistingTraceId(ActiveFormat)
                    /\ t.subsegments[1].id # ExistingParentId
              /\ \A e \in AddedHttp(h) :
                    /\ e.trace_id = Some(ExistingTraceId(ActiveFormat))
                    /\ e.segment_id # Some(ExistingParentId)]_vars

(***************************************************************************)
(* Vocabulary: the step is a call of the wrapped send on handle h.         *)
(***************************************************************************)
SendCall(h) ==
    /\ sends' = sends + 1
    /\ xhr'[h] # xhr[h] \/ xhrMap'[h] # xhrMap[h]

(***************************************************************************)
(* C25.  The instrumentation never alters the intercepted call: every call *)
(* of the wrapped send reaches the original send, so a handle that is      *)
(* OPENED is sent, whether or not the plugin holds a record of it, and no  *)
(* exception of the plugin's own work (building the trace, injecting the   *)
(* header) leaves the wrapper.                                             *)
(***************************************************************************)
C25_OriginalAlwaysInvoked ==
    [][\A h \in Handles :
          SendCall(h) =>
              /\ xhr'[h].raised # "setRequestHeader"
              /\ xhr[h].readyState = "OPENED" =>
                    /\ xhr'[h].readyState = "SENT"
                    /\ xhr'[h].raised = ""
              /\ xhr[h].readyState # "OPENED" =>
                    /\ xhr'[h].readyState = xhr[h].readyState
                    /\ xhr'[h].raised = "send"]_vars

(***************************************************************************)
(* MonkeyPatched: enable installs the wrappers of patches on               *)
(* XMLHttpRequest.prototype, disable restores the original open and send.  *)
(* Both do nothing when the plugin is already in the state asked for.      *)
(* Neither touches xhrMap or the listeners registered on a handle.         *)
(***************************************************************************)
enable ==
    /\ enabled' = TRUE
    /\ UNCHANGED authVars
    /\ UNCHANGED <<config, context, session, isSyntheticsUA, created, xhrMap,
                   listeners, xhr, events, nextId, now, sends, signalled>>

disable ==
    /\ enabled' = FALSE
    /\ UNCHANGED authVars
    /\ UNCHANGED <<config, context, session, isSyntheticsUA, created, xhrMap,
                   listeners, xhr, events, nextId, now, sends, signalled>>

\* XMLHttpRequest.prototype.open as the application calls it: the wrapper
\* while the patches are installed, the original otherwise.
open(h, method, url, async) ==
    IF enabled
    THEN openWrapper(h, method, url, async)
    ELSE /\ xhr' = [originalOpen(h, method, url) EXCEPT
                       ![h].viaWrapper = FALSE]
         /\ signalled' = [signalled EXCEPT ![h] = 0]
         /\ events' = drained(h)
         /\ UNCHANGED authVars
         /\ UNCHANGED <<config, context, session, isSyntheticsUA, created,
                        xhrMap, listeners, nextId, now, sends, enabled>>

\* XMLHttpRequest.prototype.send as the application calls it.
send(h) ==
    IF enabled
    THEN sendWrapper(h)
    ELSE /\ sends < MaxSends
         /\ xhr[h].readyState = "OPENED"
         /\ sends' = sends + 1
         /\ xhr' = originalSend(h, << >>, FALSE)
         /\ UNCHANGED authVars
         /\ UNCHANGED <<config, context, session, isSyntheticsUA, created,
                        xhrMap, listeners, events, nextId, now, signalled,
                        enabled>>

\* The plugin has been loaded: onload has enabled it.
LifecycleInit ==
    /\ AuthInit
    /\ XhrInit
    /\ config = [defaultConfig EXCEPT !.recordAllRequests = TRUE]
    /\ context.enableXRay
    /\ session = Some([record |-> TRUE])
    /\ ~isSyntheticsUA

LifecycleNext ==
    \/ enable
    \/ disable
    \/ \E h \in created, r \in Requests : open(h, r[1], r[2], r[3])
    \/ \E h \in created : send(h)
    \/ \E h \in created : Load(h, 200, Some("42"))
    \/ \E h \in created : Abort(h)

LifecycleSpec == LifecycleInit /\ [][LifecycleNext]_vars

(***************************************************************************)
(* C26.  A call opened and sent while the plugin is disabled goes to the   *)
(* original transport, creates no call-state record and records no event;  *)
(* a call opened with an allowed URL after the plugin was enabled again    *)
(* has a record and is traced when sent.                                   *)
(***************************************************************************)
C26_DisabledCallsUntracked ==
    [][\A h \in Handles :
          /\ ~enabled /\ xhr'[h] # xhr[h] /\ xhr'[h].readyState = "OPENED"
                => xhrMap'[h] = xhrMap[h]
          /\ ~enabled /\ SendCall(h)
                => /\ xhr'[h].readyState = "SENT"
                   /\ xhrMap'[h] = xhrMap[h]
                   /\ listeners'[h] = listeners[h]
          /\ DispatchStep(h) /\ ~xhr[h].viaWrapper /\ ~xhr[h].tracked
                => events' = events
          /\ enabled /\ xhr'[h] # xhr[h] /\ xhr'[h].readyState = "OPENED"
                /\ isUrlAllowed(Get(xhr'[h].url), config)
                => /\ xhrMap'[h] # None
                   /\ Get(xhrMap'[h]).url = Get(xhr'[h].url)
          /\ enabled /\ SendCall(h) /\ xhr[h].readyState = "OPENED"
                /\ xhrMap[h] # None
                => xhr'[h].tracked /\ listeners'[h]]_vars

(***************************************************************************)
(* The URL filter under the configurations an application may pass to the  *)
(* constructor.  A partial configuration gives urlsToInclude,              *)
(* urlsToExclude, both or neither; the constructor merges it over          *)
(* defaultConfig, a field that is given replaces the default.              *)
(***************************************************************************)
NoConfig == [urlsToInclude |-> None, urlsToExclude |-> None]
EmptyExclude == [urlsToInclude |-> None, urlsToExclude |-> Some({})]

PartialConfigs ==
    { [urlsToInclude |-> i, urlsToExclude |-> e] :
        i \in {None, Some({ReAws}), Some({ReAws, ReCognito}), Some({})},
        e \in {None, Some({}), Some({ReAws}), Some({ReSts})} }

\* Mutant: an exclude list that is given is added to the default list.
mergeConfigAddingExcludes(partial) ==
    [defaultConfig EXCEPT
        !.urlsToInclude = IF partial.urlsToInclude # None
                          THEN Get(partial.urlsToInclude)
                          ELSE @,
        !.urlsToExclude = IF partial.urlsToExclude # None
                          THEN @ \cup Get(partial.urlsToExclude)
                          ELSE @]

\* this.config = { ...defaultConfig, ...config }
mergeConfig(partial) ==
    [defaultConfig EXCEPT
        !.urlsToInclude = IF partial.urlsToInclude # None
                          THEN Get(partial.urlsToInclude)
                          ELSE @,
        !.urlsToExclude = IF partial.urlsToExclude # None
                          THEN Get(partial.urlsToExclude)
                          ELSE @]

FilterRequests ==
    { <<"GET", UrlAws, TRUE>>, <<"GET", UrlOther, TRUE>>,
      <<"GET", UrlCognito, TRUE>>, <<"GET", UrlSts, TRUE>> }

FilterInit ==
    /\ AuthInit
    /\ config \in {mergeConfig(partial) : partial \in PartialConfigs}
    /\ context = [enableXRay |-> FALSE, enableW3CTraceId |-> FALSE]
    /\ session = Some([record |-> TRUE])
    /\ isSyntheticsUA = FALSE
    /\ created = {"xhr1"}
    /\ xhrMap = [h \in Handles |-> None]
    /\ listeners = [h \in Handles |-> FALSE]
    /\ xhr = [h \in Handles |-> newXhr]
    /\ events = << >>
    /\ nextId = 0
    /\ now = 0
    /\ sends = 0
    /\ signalled = [h \in Handles |-> 0]
    /\ enabled = TRUE

FilterNext ==
    \/ \E h \in created, r \in FilterRequests :
          openWrapper(h, r[1], r[2], r[3])
    \/ \E h \in created : sendWrapper(h)
    \/ \E h \in created : Load(h, 500, None)

FilterSpec == FilterInit /\ [][FilterNext]_vars

(***************************************************************************)
(* Vocabulary: the step is an open of h, and the open has set a record of  *)
(* its URL.                                                                *)
(***************************************************************************)
OpenStep(h) ==
    /\ xhr'[h].readyState = "OPENED"
    /\ sends' = sends
    /\ signalled'[h] = 0
    /\ signalled' # signalled \/ xhr' # xhr \/ xhrMap' # xhrMap
          \/ events' # events \/ xhr[h].readyState = "OPENED"

RecordSet(h) ==
    /\ xhrMap'[h] # None
    /\ Get(xhrMap'[h]).url = Get(xhr'[h].url)
    /\ Get(xhrMap'[h]).trace = None

(***************************************************************************)
(* C27.  An open sets a call-state record if and only if its URL matches   *)
(* at least one include pattern and no exclude pattern.  With no           *)
(* configuration every URL is allowed except those of the identity broker  *)
(* and of STS; with an explicitly empty exclude list those are allowed     *)
(* too.                                                                    *)
(***************************************************************************)
C27_UrlFilter ==
    [][\A h \in Handles :
          OpenStep(h) =>
              LET url == Get(xhr'[h].url) IN
              /\ RecordSet(h) <=>
                    /\ \E re \in config.urlsToInclude : Matches(re, url)
                    /\ ~ \E re \in config.urlsToExclude : Matches(re, url)
              /\ ~RecordSet(h) => xhrMap'[h] = xhrMap[h]
              /\ config = mergeConfig(NoConfig) =>
                    (RecordSet(h) <=> url \notin {UrlCognito, UrlSts})
              /\ config = mergeConfig(EmptyExclude) => RecordSet(h)]_vars

\* With an explicitly empty exclude list, a call to the STS endpoint has
\* been recorded.
C27_Witness ==
    \E h \in Handles :
        /\ config = mergeConfig(EmptyExclude)
        /\ xhr[h].url = Some(UrlSts)
        /\ Completed(h)
        /\ HttpCount(events, h) = 1

(***************************************************************************)
(* C28.  When a trace event and an HTTP event are recorded for the same    *)
(* call, the trace event comes first and the HTTP event follows it at      *)
(* once: both are recorded while one completion event is handled, and no   *)
(* event of another call lies between them.                                *)
(***************************************************************************)
C28_TraceThenHttp ==
    [][/\ \A j, k \in Added :
             /\ events'[j].handle = events'[k].handle
             /\ events'[j].call = events'[k].call
       /\ Added # {} => \E h \in Handles : FirstSignal(h)
       /\ \A j, k \in 1..Len(events') :
             /\ IsTraceEvent(events'[k]) /\ IsHttpEvent(events'[j])
             /\ events'[j].handle = events'[k].handle
             /\ events'[j].call = events'[k].call
             => /\ j = k + 1
                /\ j \in Added <=> k \in Added]_vars

\* Two calls in flight at once have both completed, each with its trace
\* event and its HTTP event.
C28_Witness ==
    /\ Len(events) = 4
    /\ \A h \in Handles :
          /\ Completed(h)
          /\ TraceCount(events, h) = 1
          /\ HttpCount(events, h) = 1
    /\ xhr["xhr1"].call = 2
    /\ events[1].handle = "xhr1"

(***************************************************************************)
(* C29.  Every trace that is recorded has exactly one subsegment; its      *)
(* namespace is 'remote', its request is marked traced = true and has the  *)
(* method and url of the call, and its start_time is the start_time of the *)
(* trace root.                                                             *)
(***************************************************************************)
C29_OneRemoteSubsegment ==
    [][\A h \in Handles : \A t \in AddedTraces(h) :
          /\ Len(t.subsegments) = 1
          /\ t.subsegments[1].namespace = "remote"
          /\ t.subsegments[1].http.request.traced
          /\ t.subsegments[1].start_time = t.start_time
          /\ t.subsegments[1].http.request.method = Get(xhr'[h].method)
          /\ t.subsegments[1].http.request.url = Get(xhr'[h].url)]_vars

(***************************************************************************)
(* Vocabulary: the events the handler of handleXhrDetailsOnError and the   *)
(* handler of the error event would record for the call of h in this step, *)
(* and an event with the error name blanked.                               *)
(***************************************************************************)
DetailsOnErrorEvents(h, errorName) ==
    LET trace == detailsOnErrorTrace(Get(Get(xhrMap[h]).trace), errorName,
                                     now')
        details == [Get(xhrMap[h]) EXCEPT !.trace = Some(trace)]
    IN  recordHttpEventWithError(recordTraceEvent(<< >>, trace, h),
                                 details, h, Primitive(errorName))

ErrorEvents(h) ==
    LET message == errorMessage(xhr'[h].status, xhr'[h].statusText)
        trace == errorTrace(Get(Get(xhrMap[h]).trace), message, now')
        details == [Get(xhrMap[h]) EXCEPT !.trace = Some(trace)]
    IN  recordHttpEventWithError(recordTraceEvent(<< >>, trace, h),
                                 details, h, XhrError(message))

WithoutErrorName(e) ==
    IF IsTraceEvent(e)
    THEN [e EXCEPT !.payload.subsegments[1].cause =
            IF @ = None THEN @
            ELSE Some([exceptions |->
                         << [Get(@).exceptions[1] EXCEPT !.type = ""] >>])]
    ELSE [e EXCEPT !.payload.error =
            IF @ = None THEN @
            ELSE Some([Get(@) EXCEPT !.type = "", !.message = ""])]

WithoutErrorNames(log) == [k \in 1..Len(log) |-> WithoutErrorName(log[k])]

OtherOf(kind) ==
    IF kind = "abort" THEN "XMLHttpRequest timeout" ELSE "XMLHttpRequest abort"

(***************************************************************************)
(* C30, as stated: the trace and the HTTP event recorded for an aborted    *)
(* call are those recorded for a call that timed out and those recorded    *)
(* for a call that failed with the error event, but for the error name.    *)
(***************************************************************************)
C30_AbortAsTimeoutAndError ==
    [][\A h \in Handles :
          CompletesBy(h, {"abort"}) =>
              /\ WithoutErrorNames(AddedSeq) =
                    WithoutErrorNames(
                        DetailsOnErrorEvents(h, "XMLHttpRequest timeout"))
              /\ WithoutErrorNames(AddedSeq) =
                    WithoutErrorNames(ErrorEvents(h))]_vars

(***************************************************************************)
(* C30, amended: the trace and the HTTP event recorded for an aborted call *)
(* are those recorded for a call that timed out, but for the error name,   *)
(* and the other way round.                                                *)
(***************************************************************************)
C30_AbortAsTimeout ==
    [][\A h \in Handles :
          CompletesBy(h, {"abort", "timeout"}) =>
              /\ WithoutErrorNames(AddedSeq) =
                    WithoutErrorNames(
                        DetailsOnErrorEvents(h, OtherOf(xhr'[h].completion)))
              /\ AddedSeq =
                    DetailsOnErrorEvents(h, CauseName(xhr'[h].completion))]_vars

\* An aborted call has a trace event and an HTTP event.
C30_Witness ==
    \E h \in Handles :
        /\ Completed(h)
        /\ xhr[h].completion = "abort"
        /\ TraceCount(events, h) = 1
        /\ HttpCount(events, h) = 1

(***************************************************************************)
(* C31.  Only calls that pass the filter are traced: a send builds a       *)
(* trace and subscribes to the completion events only if the URL of the    *)
(* most recent open of the handle passes the filter; an open with a URL    *)
(* that fails it leaves no record of an earlier open; and a recorded event *)
(* reports the method and url of the most recent open, which pass it.      *)
(***************************************************************************)
C31_OnlyAllowedCallsTraced ==
    [][\A h \in Handles :
          /\ SendCall(h) /\ ~isUrlAllowed(Get(xhr[h].url), config) =>
                /\ xhrMap'[h] = None
                /\ listeners'[h] = listeners[h]
                /\ ~xhr'[h].tracked
          /\ OpenStep(h) /\ ~isUrlAllowed(Get(xhr'[h].url), config) =>
                xhrMap'[h] = None
          /\ \A k \in Added : events'[k].handle = h =>
                /\ isUrlAllowed(Get(xhr'[h].url), config)
                /\ IsHttpEvent(events'[k]) =>
                      /\ events'[k].payload.request.url = Get(xhr'[h].url)
                      /\ events'[k].payload.request.method =
                             Get(xhr'[h].method)]_vars

C33_TraceIdRefersToRecordedTrace ==
    [][\A h \in Handles : \A e \in AddedHttp(h) :
          e.trace_id # None =>
              \E t \in AddedTraces(h) :
                  /\ Some(t.trace_id) = e.trace_id
                  /\ Some(t.subsegments[1].id) = e.segment_id]_vars

(***************************************************************************)
(* Vocabulary: the parent id a trace header value encodes.                 *)
(***************************************************************************)
HeaderParentId(value) ==
    IF value.encoding = "w3c" THEN value.parentId ELSE value.Parent

(***************************************************************************)
(* C34.  For every call that went out with a trace header the plugin       *)
(* injected, the trace id and the parent id of the header are the trace_id *)
(* and the subsegment id of the trace event and of the HTTP event recorded *)
(* for the call, whatever sequence of open and send preceded, a second     *)
(* send on a handle already sent included.                                 *)
(***************************************************************************)
C34_HeaderMatchesEvents ==
    [][\A h \in Handles : \A k \in 1..Len(xhr[h].headers) :
          LET value == xhr[h].headers[k].value IN
          /\ \A t \in AddedTraces(h) :
                /\ t.trace_id = HeaderTraceId(value)
                /\ t.subsegments[1].id = HeaderParentId(value)
          /\ \A e \in AddedHttp(h) :
                /\ e.trace_id = Some(HeaderTraceId(value))
                /\ e.segment_id = Some(HeaderParentId(value))]_vars

(***************************************************************************)
(* C35.  However overlapping calls of the provider interleave at their     *)
(* awaits, the assignment of this.credentials and the write to local       *)
(* storage of one exchange are one step, in which no other call moves:     *)
(* the step that completes step (c) of a call makes this.credentials the   *)
(* answer of that call and, when the write succeeds, makes the stored      *)
(* entry the same value (when it fails, the entry stays); no other step    *)
(* changes either.  So after a write that succeeded the stored entry is    *)
(* this.credentials, and this.credentials is the answer of the call whose  *)
(* step (c) completed last.                                                *)
(***************************************************************************)
C35_AtomicCacheAndStore ==
    [][/\ \A i \in Invocations :
             ReturnStep(i) =>
                 /\ credentials' = Some(StepCResult(i))
                 /\ \/ localStorage' = credentials'
                    \/ localStorage' = localStorage
                 /\ \A j \in Invocations \ {i} : pc'[j] = pc[j]
       /\ (\A i \in Invocations : ~ReturnStep(i)) =>
             /\ credentials' = credentials
             /\ localStorage' = localStorage]_vars

\* Two calls overlapped (neither had returned when the other started); the
\* one that answered step (c) last has its credentials cached and stored,
\* in place of those of the other.
C35_Witness ==
    \E i, j \in Invocations :
        /\ i # j
        /\ pc[i] = "returned" /\ pc[j] = "returned"
        /\ atInvoke[i].credentials = None /\ atInvoke[j].credentials = None
        /\ credentials = Some(Get(outcome[i]).returned)
        /\ credentials # Some(Get(outcome[j]).returned)
        /\ localStorage = credentials

(***************************************************************************)
(* The credential provider under the assumption that every request is      *)
(* answered: a call that is suspended at an await is eventually resumed,   *)
(* by the answer or by the rejection of the request it awaits.             *)
(***************************************************************************)
Answered(i) ==
    \/ Reject(i)
    \/ GetIdResolve(i)
    \/ GetOpenIdTokenResolve(i)
    \/ \E stored \in BOOLEAN : AssumeRoleResolve(i, stored)

AuthFairSpec ==
    /\ AuthSpecInit
    /\ [][AuthNext]_vars
    /\ \A i \in Invocations : WF_vars(Answered(i))

\* This step starts a call of the provider in slot i.
InvokeStep(i) == ~Suspended(i) /\ pc'[i] = "getId"

(***************************************************************************)
(* C36.  Every call of the provider terminates, returning or throwing,     *)
(* provided each request is eventually answered or rejected; it makes at   *)
(* most two attempts and issues at most six requests.  The retry budget    *)
(* belongs to the call: every call starts with one retry, however the      *)
(* calls before it ended.                                                  *)
(***************************************************************************)
C36_EveryCallTerminates ==
    /\ \A i \in Invocations :
          Suspended(i) ~> (pc[i] \in {"returned", "thrown"})
    /\ [](\A i \in Invocations : attempts[i] <= 2 /\ Len(requests[i]) <= 6)
    /\ [][\A i \in Invocations :
             InvokeStep(i) =>
                 /\ retries'[i] = 1
                 /\ attempts'[i] = 1
                 /\ Len(requests'[i]) = 1]_vars

\* A call has ended, and a later call in the same slot used a retry of its
\* own: it returned from its second attempt, after six requests.
C36_Witness ==
    \E i \in Invocations :
        /\ invocations = 2
        /\ \A j \in Invocations \ {i} : pc[j] = "idle"
        /\ pc[i] = "returned"
        /\ attempts[i] = 2
        /\ Len(requests[i]) = 6
        /\ retries[i] = 0

(***************************************************************************)
(* The plugin under the assumption that the transport delivers a           *)
(* completion event for every call that was sent: while a call is in       *)
(* flight, one of load, error, abort and timeout is eventually dispatched. *)
(* Nothing obliges the application to send a call it has opened.           *)
(***************************************************************************)
Delivered(h) ==
    /\ xhr[h].readyState = "SENT"
    /\ \/ Load(h, 200, Some("42"))
       \/ Error(h, 0, "")
       \/ Abort(h)
       \/ Timeout(h)

CompletionNext ==
    \/ \E h \in created, r \in Requests : openWrapper(h, r[1], r[2], r[3])
    \/ \E h \in created : sendWrapper(h)
    \/ \E h \in created : Load(h, 200, Some("42"))
    \/ \E h \in created : Error(h, 0, "")
    \/ \E h \in created : Abort(h)
    \/ \E h \in created : Timeout(h)

CompletionSpec ==
    /\ HeaderInit
    /\ [][CompletionNext]_vars
    /\ \A h \in Handles : WF_vars(Delivered(h))

(***************************************************************************)
(* C37.  Every record is eventually removed: provided a completion event   *)
(* is delivered for every call that is sent, a record that open has put    *)
(* into xhrMap is eventually deleted, so the map holds no record of a call *)
(* that will never complete.                                               *)
(***************************************************************************)
C37_RecordEventuallyRemoved ==
    \A h \in Handles : (xhrMap[h] # None) ~> (xhrMap[h] = None)

====
